---- MODULE Spec2Model ----
(***************************************************************************)
(* Model of the message pipeline of kabir8890/5-human-job-skills:          *)
(*   - MemoryAgent (src/memory.py): the SQLite-backed context store with   *)
(*     its four tables clients, client_details, conversations, orders;     *)
(*   - AgentOrchestrator (src/orchestrator.py): process_message and the    *)
(*     operations built on it.                                             *)
(* Tables are sequences of rows in rowid order (AUTOINCREMENT ids are the  *)
(* positions; no row is ever deleted).  SQL NULL / Python None is NULL.    *)
(* Wall-clock time is the counter now: CURRENT_TIMESTAMP and               *)
(* datetime.now() both read it, and two reads between two ticks are equal  *)
(* (CURRENT_TIMESTAMP has a resolution of one second).                     *)
(***************************************************************************)
EXTENDS Integers, Sequences, FiniteSets, TLC

VARIABLES
    clients,          \* table clients: client_id -> row
    client_details,   \* table client_details, rows in rowid order
    conversations,    \* table conversations, rows in rowid order
    orders,           \* table orders, rows in rowid order
    now,              \* the wall clock
    call,             \* the last completed call of the store or of an adapter: operation, arguments, return value
    saved,            \* history: (client, key) -> the values its save_detail calls wrote, in commit order
    wpc,              \* concurrent save_detail callers: position of each
    wloc,             \* concurrent save_detail callers: locals of each
    opc,              \* orchestrator: position inside process_message
    oloc,             \* orchestrator: locals of the running process_message
    result,           \* orchestrator: what its last operation handed to the caller
    preferred_language, \* TranslatorAgent.preferred_language, the pipeline's working language
    apc,              \* orchestrator: position inside auto_reply
    aloc              \* orchestrator: locals of the running auto_reply

storeVars == <<clients, client_details, conversations, orders>>
concVars  == <<wpc, wloc>>
orchVars  == <<opc, oloc, result>>
replyVars == <<preferred_language, apc, aloc>>
vars == <<clients, client_details, conversations, orders, now, call, saved,
          wpc, wloc, opc, oloc, result, preferred_language, apc, aloc>>

----------------------------------------------------------------------------
(* Bounds and input domains *)

MaxClock    == 1     \* the clock ticks at most this many times
MaxSaves    == 3     \* save_detail calls in a run
MaxRows     == 1     \* save_detail, save_message and save_order calls in a run about the clients
MaxMessages == 3     \* rows in conversations
MaxCalls    == 2     \* process_message calls that store their message in a run
MaxContextRows == 3  \* save_detail, save_message and save_order calls in a run about the context
MaxOrders   == 2     \* rows in orders

NULL == "<None>"

PREFERRED_LANGUAGE == "en"   \* config.PREFERRED_LANGUAGE, the pipeline's working language

ClientIds == {"c1", "c2"}
Names     == {"Ana", "Bo"}
Languages == {"en", "es"}
Keys      == {"budget", "timeline"}
Values    == {"$300", "$500"}
Roles     == {"client", "assistant"}
Contents  == {"hola", "hello"}
Products  == {"logo", "site"}
Statuses  == {"pending", "paid"}
LeadScores == {"hot", "warm", "cold"}
Writers   == {"w1", "w2"}

Max(S) == CHOOSE m \in S : \A x \in S : x <= m
Min2(a, b) == IF a <= b THEN a ELSE b
Reverse(s) == [i \in 1..Len(s) |-> s[Len(s) + 1 - i]]

(* All orderings (sequences without repetition) of the elements of S *)
Orderings(S) ==
    {f \in [1..Cardinality(S) -> S] : \A i, j \in 1..Cardinality(S) : i # j => f[i] # f[j]}

----------------------------------------------------------------------------
(* MemoryAgent: the tables after _init_database *)

InitStore ==
    /\ clients = <<>>
    /\ client_details = <<>>
    /\ conversations = <<>>
    /\ orders = <<>>

(* SQL COALESCE(?, column) *)
COALESCE(new, old) == IF new # NULL THEN new ELSE old

(* save_client: INSERT ... ON CONFLICT(client_id) DO UPDATE SET name =
   COALESCE(?, name), language = COALESCE(?, language), last_contact = ? *)
save_client_coalesce_swapped(cl, id, name, language, t) ==
    IF id \in DOMAIN cl
    THEN [cl EXCEPT ![id].name = COALESCE(@, name),
                    ![id].language = COALESCE(@, language),
                    ![id].last_contact = t]
    ELSE cl @@ (id :> [name |-> name, language |-> language, created_at |-> t,
                       last_contact |-> t, lead_score |-> NULL, notes |-> NULL])

save_client_overwrite(cl, id, name, language, t) ==
    IF id \in DOMAIN cl
    THEN [cl EXCEPT ![id].name = name, ![id].language = language,
                    ![id].last_contact = t]
    ELSE cl @@ (id :> [name |-> name, language |-> language, created_at |-> t,
                       last_contact |-> t, lead_score |-> NULL, notes |-> NULL])

save_client(cl, id, name, language, t) ==
    IF id \in DOMAIN cl
    THEN [cl EXCEPT ![id].name = COALESCE(name, @),
                    ![id].language = COALESCE(language, @),
                    ![id].last_contact = t]
    ELSE cl @@ (id :> [name |-> name, language |-> language, created_at |-> t,
                       last_contact |-> t, lead_score |-> NULL, notes |-> NULL])

(* The None that get_client returns for an id without a row *)
NoClient == [none |-> TRUE]

(* get_client answering an unknown id with a row of empty fields *)
get_client_blank_row(cl, id) ==
    IF id \in DOMAIN cl
    THEN [client_id |-> id, name |-> cl[id].name, language |-> cl[id].language,
          created_at |-> cl[id].created_at, last_contact |-> cl[id].last_contact,
          lead_score |-> cl[id].lead_score, notes |-> cl[id].notes]
    ELSE [client_id |-> id, name |-> NULL, language |-> NULL, created_at |-> NULL,
          last_contact |-> NULL, lead_score |-> NULL, notes |-> NULL]

(* get_client: the row as a dict, or None *)
get_client(cl, id) ==
    IF id \in DOMAIN cl
    THEN [client_id |-> id, name |-> cl[id].name, language |-> cl[id].language,
          created_at |-> cl[id].created_at, last_contact |-> cl[id].last_contact,
          lead_score |-> cl[id].lead_score, notes |-> cl[id].notes]
    ELSE NoClient

(* save_detail, the SELECT id ... WHERE client_id = ? AND key = ?: the rowids found *)
detail_rows(rows, id, key) ==
    {i \in DOMAIN rows : rows[i].client_id = id /\ rows[i].key = key}

(* save_detail, the write that follows the existence check: UPDATE of every
   row of the key when the check found one, INSERT of a new row otherwise *)
detail_write_no_key_filter(rows, id, key, value, t, found) ==
    IF found
    THEN [i \in DOMAIN rows |->
            IF rows[i].client_id = id
            THEN [rows[i] EXCEPT !.value = value, !.created_at = t]
            ELSE rows[i]]
    ELSE Append(rows, [client_id |-> id, key |-> key, value |-> value, created_at |-> t])

detail_write_always_insert(rows, id, key, value, t, found) ==
    Append(rows, [client_id |-> id, key |-> key, value |-> value, created_at |-> t])

detail_write(rows, id, key, value, t, found) ==
    IF found
    THEN [i \in DOMAIN rows |->
            IF rows[i].client_id = id /\ rows[i].key = key
            THEN [rows[i] EXCEPT !.value = value, !.created_at = t]
            ELSE rows[i]]
    ELSE Append(rows, [client_id |-> id, key |-> key, value |-> value, created_at |-> t])

(* get_detail: SELECT value ... ORDER BY created_at DESC LIMIT 1.  SQL leaves
   the order of rows with equal created_at open, so the call may return the
   value of any row of the key with the greatest created_at; None without rows *)
get_detail(rows, id, key) ==
    LET R == detail_rows(rows, id, key)
    IN  IF R = {} THEN {NULL}
        ELSE {rows[i].value : i \in {j \in R : \A k \in R : rows[k].created_at <= rows[j].created_at}}

(* Python dict insertion d[key] = value on a dict kept as a sequence of
   <<key, value>> pairs in insertion order *)
dict_set(d, key, value) ==
    IF \E i \in DOMAIN d : d[i][1] = key
    THEN [i \in DOMAIN d |-> IF d[i][1] = key THEN <<key, value>> ELSE d[i]]
    ELSE Append(d, <<key, value>>)

dict_has(d, key) == \E i \in DOMAIN d : d[i][1] = key
dict_get(d, key) == IF dict_has(d, key)
                    THEN d[CHOOSE i \in DOMAIN d : d[i][1] = key][2]
                    ELSE NULL

(* get_all_details: {row[0]: row[1] for row in rows} over the rows of the
   client in rowid order *)
RECURSIVE details_dict(_, _, _)
details_dict(rows, id, n) ==
    IF n = 0 THEN <<>>
    ELSE LET d == details_dict(rows, id, n - 1)
         IN  IF rows[n].client_id = id THEN dict_set(d, rows[n].key, rows[n].value) ELSE d

get_all_details(rows, id) == details_dict(rows, id, Len(rows))

(* save_message putting the new row in front of the table *)
save_message_newest_first(conv, id, role, content, platform, t) ==
    <<[client_id |-> id, role |-> role, content |-> content,
       timestamp |-> t, platform |-> platform]>> \o conv

(* save_message: INSERT INTO conversations; timestamp is the column default
   CURRENT_TIMESTAMP *)
save_message(conv, id, role, content, platform, t) ==
    Append(conv, [client_id |-> id, role |-> role, content |-> content,
                  timestamp |-> t, platform |-> platform])

(* The rowids of the client's rows in a table *)
rows_of(tbl, id) == {i \in DOMAIN tbl : tbl[i].client_id = id}

(* get_history: SELECT role, content, timestamp ... ORDER BY timestamp DESC
   LIMIT ?, then reversed(rows).  The order among rows of equal timestamp is
   not fixed by the query: every order of the rows with non-increasing
   timestamps is a possible answer of the database.  The set of possible
   return values. *)
get_history(conv, id, limit) ==
    LET R == rows_of(conv, id)
        n == Min2(limit, Cardinality(R))
        sorted == {o \in Orderings(R) :
                     \A i, j \in 1..Cardinality(R) :
                        i < j => conv[o[i]].timestamp >= conv[o[j]].timestamp}
        dict(i) == [role |-> conv[i].role, content |-> conv[i].content,
                    timestamp |-> conv[i].timestamp]
    IN  {Reverse([k \in 1..n |-> dict(o[k])]) : o \in sorted}

(* save_order: INSERT INTO orders; created_at is CURRENT_TIMESTAMP *)
save_order(ord, id, product, amount, status, t) ==
    Append(ord, [client_id |-> id, product |-> product, amount |-> amount,
                 status |-> status, created_at |-> t])

(* get_orders: SELECT ... ORDER BY created_at DESC; ties in any order.  The
   set of possible return values. *)
get_orders(ord, id) ==
    LET R == rows_of(ord, id)
        sorted == {o \in Orderings(R) :
                     \A i, j \in 1..Cardinality(R) :
                        i < j => ord[o[i]].created_at >= ord[o[j]].created_at}
        dict(i) == [product |-> ord[i].product, amount |-> ord[i].amount,
                    status |-> ord[i].status, created_at |-> ord[i].created_at]
    IN  {[k \in 1..Cardinality(R) |-> dict(o[k])] : o \in sorted}

(* update_lead_score: UPDATE clients SET lead_score = ? WHERE client_id = ? *)
update_lead_score(cl, id, score) ==
    IF id \in DOMAIN cl THEN [cl EXCEPT ![id].lead_score = score] ELSE cl

(* Python truthiness of an optional string *)
Truthy(s) == s # NULL /\ s # ""

(* " | ".join(parts) *)
RECURSIVE Join(_)
Join(parts) ==
    IF Len(parts) = 0 THEN ""
    ELSE IF Len(parts) = 1 THEN parts[1]
    ELSE parts[1] \o " | " \o Join(Tail(parts))

(* _generate_context_summary with the language put before the name *)
summary_parts_language_first(client, details, history, ord) ==
    LET clientParts ==
            IF client = NoClient THEN <<>>
            ELSE (IF Truthy(client.language) THEN <<"Language: " \o client.language>> ELSE <<>>)
              \o (IF Truthy(client.name) THEN <<"Client: " \o client.name>> ELSE <<>>)
              \o (IF Truthy(client.lead_score) THEN <<"Lead score: " \o client.lead_score>> ELSE <<>>)
        detailParts == [i \in DOMAIN details |-> details[i][1] \o ": " \o details[i][2]]
        orderParts ==
            IF Len(ord) = 0 THEN <<>>
            ELSE << "Orders: " \o ToString(Len(ord)) \o " total",
                    "Last order: " \o ord[1].product \o " (" \o ord[1].status \o ")" >>
        historyParts ==
            IF Len(history) = 0 THEN <<>>
            ELSE << "Conversation history: " \o ToString(Len(history)) \o " messages" >>
    IN  clientParts \o detailParts \o orderParts \o historyParts

(* _generate_context_summary, the list parts *)
summary_parts(client, details, history, ord) ==
    LET clientParts ==
            IF client = NoClient THEN <<>>
            ELSE (IF Truthy(client.name) THEN <<"Client: " \o client.name>> ELSE <<>>)
              \o (IF Truthy(client.language) THEN <<"Language: " \o client.language>> ELSE <<>>)
              \o (IF Truthy(client.lead_score) THEN <<"Lead score: " \o client.lead_score>> ELSE <<>>)
        detailParts == [i \in DOMAIN details |-> details[i][1] \o ": " \o details[i][2]]
        orderParts ==
            IF Len(ord) = 0 THEN <<>>
            ELSE << "Orders: " \o ToString(Len(ord)) \o " total",
                    "Last order: " \o ord[1].product \o " (" \o ord[1].status \o ")" >>
        historyParts ==
            IF Len(history) = 0 THEN <<>>
            ELSE << "Conversation history: " \o ToString(Len(history)) \o " messages" >>
    IN  clientParts \o detailParts \o orderParts \o historyParts

(* _generate_context_summary *)
generate_context_summary(client, details, history, ord) ==
    LET parts == summary_parts(client, details, history, ord)
    IN  IF Len(parts) > 0 THEN Join(parts) ELSE "New client, no history"

HistoryLimit == 10   \* get_context: get_history(client_id, limit=10)

(* get_context: the set of snapshots the call may return *)
get_context(cl, det, conv, ord, id) ==
    {[client |-> get_client(cl, id),
      details |-> get_all_details(det, id),
      recent_history |-> h,
      orders |-> o,
      summary |-> generate_context_summary(get_client(cl, id),
                                           get_all_details(det, id), h, o)]
       : h \in get_history(conv, id, HistoryLimit), o \in get_orders(ord, id)}

----------------------------------------------------------------------------
(* The store's API, one call at a time: each call of MemoryAgent runs to its
   commit before the next one starts *)

NoCall == [op |-> "none"]

InitHistory ==
    /\ call = NoCall
    /\ saved = [c \in ClientIds, k \in Keys |-> <<>>]

InitIdle ==
    /\ wpc = [w \in Writers |-> "idle"]
    /\ wloc = [w \in Writers |-> NoCall]
    /\ opc = "idle" /\ oloc = NoCall /\ result = NoCall
    /\ apc = "idle" /\ aloc = NoCall

Init ==
    /\ InitStore
    /\ now = 0
    /\ InitHistory
    /\ InitIdle
    /\ preferred_language = PREFERRED_LANGUAGE

(* time passes *)
Tick ==
    /\ now < MaxClock
    /\ now' = now + 1
    /\ UNCHANGED <<storeVars, call, saved, concVars, orchVars, replyVars>>

(* again: the call before this one was the same save_client call *)
SameSaveClient(c, id, name, language) ==
    /\ c.op = "save_client"
    /\ c.client_id = id /\ c.name = name /\ c.language = language

SaveClient(id, name, language) ==
    /\ clients' = save_client(clients, id, name, language, now)
    /\ call' = [op |-> "save_client", client_id |-> id, name |-> name,
                language |-> language,
                again |-> SameSaveClient(call, id, name, language)]
    /\ UNCHANGED <<client_details, conversations, orders, now, saved,
                   concVars, orchVars, replyVars>>

GetClient(id) ==
    /\ call' = [op |-> "get_client", client_id |-> id, ret |-> get_client(clients, id)]
    /\ UNCHANGED <<storeVars, now, saved, concVars, orchVars, replyVars>>

(* save_detail: save_client(client_id), the existence check, the write *)
SaveDetail(id, key, value) ==
    /\ clients' = save_client(clients, id, NULL, NULL, now)
    /\ client_details' = detail_write(client_details, id, key, value, now,
                                      detail_rows(client_details, id, key) # {})
    /\ saved' = [saved EXCEPT ![id, key] = Append(@, value)]
    /\ call' = [op |-> "save_detail", client_id |-> id, key |-> key, value |-> value]
    /\ UNCHANGED <<conversations, orders, now, concVars, orchVars, replyVars>>

GetDetail(id, key) ==
    /\ \E v \in get_detail(client_details, id, key) :
          call' = [op |-> "get_detail", client_id |-> id, key |-> key, ret |-> v]
    /\ UNCHANGED <<storeVars, now, saved, concVars, orchVars, replyVars>>

GetAllDetails(id) ==
    /\ call' = [op |-> "get_all_details", client_id |-> id,
                ret |-> get_all_details(client_details, id)]
    /\ UNCHANGED <<storeVars, now, saved, concVars, orchVars, replyVars>>

SaveMessage(id, role, content, platform) ==
    /\ clients' = save_client(clients, id, NULL, NULL, now)
    /\ conversations' = save_message(conversations, id, role, content, platform, now)
    /\ call' = [op |-> "save_message", client_id |-> id, role |-> role,
                content |-> content]
    /\ UNCHANGED <<client_details, orders, now, saved, concVars, orchVars, replyVars>>

GetHistory(id, limit) ==
    /\ \E h \in get_history(conversations, id, limit) :
          call' = [op |-> "get_history", client_id |-> id, limit |-> limit, ret |-> h]
    /\ UNCHANGED <<storeVars, now, saved, concVars, orchVars, replyVars>>

SaveOrder(id, product, amount, status) ==
    /\ clients' = save_client(clients, id, NULL, NULL, now)
    /\ orders' = save_order(orders, id, product, amount, status, now)
    /\ call' = [op |-> "save_order", client_id |-> id, product |-> product,
                status |-> status]
    /\ UNCHANGED <<client_details, conversations, now, saved, concVars, orchVars, replyVars>>

GetOrders(id) ==
    /\ \E o \in get_orders(orders, id) :
          call' = [op |-> "get_orders", client_id |-> id, ret |-> o]
    /\ UNCHANGED <<storeVars, now, saved, concVars, orchVars, replyVars>>

UpdateLeadScore(id, score) ==
    /\ clients' = update_lead_score(clients, id, score)
    /\ call' = [op |-> "update_lead_score", client_id |-> id, score |-> score]
    /\ UNCHANGED <<client_details, conversations, orders, now, saved,
                   concVars, orchVars, replyVars>>

GetContext(id) ==
    /\ \E s \in get_context(clients, client_details, conversations, orders, id) :
          call' = [op |-> "get_context", client_id |-> id, ret |-> s]
    /\ UNCHANGED <<storeVars, now, saved, concVars, orchVars, replyVars>>

(* Spec: the details of the clients.  The runs explored make at most MaxSaves
   save_detail calls. *)
RECURSIVE SumLen(_, _)
SumLen(f, S) ==
    IF S = {} THEN 0
    ELSE LET x == CHOOSE y \in S : TRUE IN Len(f[x]) + SumLen(f, S \ {x})

TotalSaves == SumLen(saved, DOMAIN saved)

Next ==
    \/ Tick
    \/ /\ TotalSaves < MaxSaves
       /\ \E id \in ClientIds, key \in Keys, value \in Values : SaveDetail(id, key, value)
    \/ \E id \in ClientIds, key \in Keys : GetDetail(id, key)
    \/ \E id \in ClientIds : GetAllDetails(id)

Spec == Init /\ [][Next]_vars

(* SpecClients: the client rows, written by save_client itself and by the
   save_client(client_id) inside save_detail, save_message and save_order.
   The runs explored make at most MaxRows save_detail, save_message and
   save_order calls; save_client itself is called for one client, the other
   client's row is written by the implicit saves only. *)
TotalRows == TotalSaves + Len(conversations) + Len(orders)

NextClients ==
    \/ Tick
    \/ \E id \in {"c1"}, name \in Names \cup {NULL}, language \in {"es", NULL} :
          SaveClient(id, name, language)
    \/ \E id \in {"c1"} : UpdateLeadScore(id, "hot")
    \/ /\ TotalRows < MaxRows
       /\ \E id \in ClientIds :
             \/ SaveDetail(id, "budget", "$300")
             \/ SaveMessage(id, "client", "hola", "instagram")
             \/ SaveOrder(id, "logo", 50, "pending")

SpecClients == Init /\ [][NextClients]_vars

(* Concurrent callers of save_detail.  Every MemoryAgent call opens its own
   connection, and save_detail makes three separate database accesses: the
   save_client transaction, the SELECT of the existence check (no lock is
   kept once it has returned), and the transaction of the UPDATE or INSERT.
   SQLite runs each of them atomically; another caller may run between them. *)
WBegin(w, id, key, value) ==
    /\ wpc[w] = "idle"
    /\ clients' = save_client(clients, id, NULL, NULL, now)
    /\ wloc' = [wloc EXCEPT ![w] = [client_id |-> id, key |-> key, value |-> value,
                                    found |-> FALSE]]
    /\ wpc' = [wpc EXCEPT ![w] = "check"]
    /\ UNCHANGED <<client_details, conversations, orders, now, call, saved, orchVars, replyVars>>

WCheck(w) ==
    /\ wpc[w] = "check"
    /\ wloc' = [wloc EXCEPT ![w].found =
                   detail_rows(client_details, wloc[w].client_id, wloc[w].key) # {}]
    /\ wpc' = [wpc EXCEPT ![w] = "write"]
    /\ UNCHANGED <<storeVars, now, call, saved, orchVars, replyVars>>

WWrite(w) ==
    /\ wpc[w] = "write"
    /\ client_details' = detail_write(client_details, wloc[w].client_id, wloc[w].key,
                                      wloc[w].value, now, wloc[w].found)
    /\ saved' = [saved EXCEPT ![wloc[w].client_id, wloc[w].key] = Append(@, wloc[w].value)]
    /\ call' = [op |-> "save_detail", client_id |-> wloc[w].client_id,
                key |-> wloc[w].key, value |-> wloc[w].value]
    /\ wpc' = [wpc EXCEPT ![w] = "idle"]
    /\ wloc' = [wloc EXCEPT ![w] = NoCall]
    /\ UNCHANGED <<clients, conversations, orders, now, orchVars, replyVars>>

Running == {w \in Writers : wpc[w] # "idle"}

(* SpecConcurrent: two callers of save_detail, at most MaxSaves calls in a run *)
NextConcurrent ==
    \/ Tick
    \/ /\ TotalSaves + Cardinality(Running) < MaxSaves
       /\ \E w \in Writers, id \in ClientIds, key \in Keys, value \in Values :
             WBegin(w, id, key, value)
    \/ \E w \in Writers : WCheck(w)
    \/ \E w \in Writers : WWrite(w)

SpecConcurrent == Init /\ [][NextConcurrent]_vars

(* SpecHistory: the conversations of the clients, at most MaxMessages
   messages in a run, read back with every limit up to MaxMessages *)
NextHistory ==
    \/ Tick
    \/ /\ Len(conversations) < MaxMessages
       /\ \E id \in ClientIds, role \in Roles, content \in Contents :
             SaveMessage(id, role, content, "instagram")
    \/ \E id \in ClientIds, limit \in 0..MaxMessages : GetHistory(id, limit)

SpecHistory == Init /\ [][NextHistory]_vars

(* SpecContext: the reads of the store, get_context among them, on clients
   with and without rows: client c1 gets a name, a language, a lead score,
   details, messages and orders, at most MaxContextRows rows in a run;
   client c2 is never written.  The calls of a run fall into one second. *)
NextContext ==
    \/ \E name \in {"Ana", "", NULL}, language \in {"es", NULL} :
          SaveClient("c1", name, language)
    \/ UpdateLeadScore("c1", "hot")
    \/ /\ TotalRows < MaxContextRows
       /\ \/ \E key \in Keys : SaveDetail("c1", key, "$300")
          \/ SaveMessage("c1", "client", "hola", "instagram")
          \/ SaveOrder("c1", "logo", 50, "pending")
    \/ \E id \in ClientIds :
          \/ GetClient(id)
          \/ \E key \in Keys : GetDetail(id, key)
          \/ GetAllDetails(id)
          \/ GetHistory(id, HistoryLimit)
          \/ GetOrders(id)
          \/ GetContext(id)

SpecContext == Init /\ [][NextContext]_vars

----------------------------------------------------------------------------
(* AgentOrchestrator.  The agents' answers come from the remote model: a
   parsed answer is a Python dict, here a function from the keys present to
   their values. *)

(* dict.get(key, default) *)
Get(d, k, default) == IF k \in DOMAIN d THEN d[k] ELSE default

(* truth of dict.get(key) for a key holding a JSON boolean *)
GetFlag(d, k) == k \in DOMAIN d /\ d[k] = TRUE

(* The dicts with any subset of the given keys: Opt is a key that may be absent *)
Opt(k, Vs) == {<<>>} \cup {k :> v : v \in Vs}

(* TranslatorAgent.translate: source_lang is what detect_language returned,
   remote the completion returned for the translation prompt *)
translate(message, target_language, source_lang, remote) ==
    IF source_lang = target_language
    THEN [original |-> message, translated |-> message, source_language |-> source_lang,
          target_language |-> target_language, was_translated |-> FALSE]
    ELSE [original |-> message, translated |-> remote, source_language |-> source_lang,
          target_language |-> target_language, was_translated |-> TRUE]

(* _get_recommended_action *)
get_recommended_action_hot_first(sentiment, lead, signals) ==
    IF Get(lead, "score", NULL) = "hot"
    THEN "Ready to buy - present offer and close"
    ELSE IF GetFlag(sentiment, "requires_immediate_attention")
    THEN "URGENT: Respond immediately - customer needs attention"
    ELSE IF Get(signals, "signal_strength", NULL) = "strong"
    THEN "HOT LEAD: Strong buying signal detected - prioritize closing"
    ELSE IF Get(sentiment, "category", NULL) = "complaint"
    THEN "Address complaint promptly - risk of losing customer"
    ELSE IF Get(lead, "score", NULL) = "warm"
    THEN "Nurture lead - provide value and build relationship"
    ELSE IF Get(sentiment, "category", NULL) = "sales_opportunity"
    THEN "Sales opportunity - qualify further and present value"
    ELSE "Respond helpfully - standard inquiry"

get_recommended_action(sentiment, lead, signals) ==
    IF GetFlag(sentiment, "requires_immediate_attention")
    THEN "URGENT: Respond immediately - customer needs attention"
    ELSE IF Get(signals, "signal_strength", NULL) = "strong"
    THEN "HOT LEAD: Strong buying signal detected - prioritize closing"
    ELSE IF Get(lead, "score", NULL) = "hot"
    THEN "Ready to buy - present offer and close"
    ELSE IF Get(sentiment, "category", NULL) = "complaint"
    THEN "Address complaint promptly - risk of losing customer"
    ELSE IF Get(lead, "score", NULL) = "warm"
    THEN "Nurture lead - provide value and build relationship"
    ELSE IF Get(sentiment, "category", NULL) = "sales_opportunity"
    THEN "Sales opportunity - qualify further and present value"
    ELSE "Respond helpfully - standard inquiry"

(* process_message, step 8: what is written to the store *)
message_to_persist_translated(message, translation) == translation.translated

message_to_persist(message, translation) == message

score_to_persist(lead) == Get(lead, "score", "warm")

(* process_message, the order of its steps: after the analysis come the three
   writes of step 8 when save_to_memory is set, then the result is compiled *)
next_step(step, save_to_memory) ==
    CASE step = "analyze"           -> IF save_to_memory THEN "save_message" ELSE "compile"
      [] step = "save_message"      -> "save_client"
      [] step = "save_client"       -> "update_lead_score"
      [] step = "update_lead_score" -> "compile"

(* process_message, step 1: context = self.memory.get_context(client_id) *)
PMBegin(id, message, save_to_memory) ==
    /\ opc = "idle"
    /\ \E ctx \in get_context(clients, client_details, conversations, orders, id) :
          /\ oloc' = [client_id |-> id, message |-> message,
                      save_to_memory |-> save_to_memory, context |-> ctx]
          /\ call' = [op |-> "get_context", client_id |-> id, ret |-> ctx]
    /\ opc' = "analyze"
    /\ result' = NoCall
    /\ UNCHANGED <<storeVars, now, saved, concVars, replyVars>>

(* process_message, steps 2 to 7: the translation, the sentiment analysis,
   the history extended by the normalized message (history is the list of
   the context dict itself, so the append is seen through context), the lead
   score, the suggestions, the buying signals.  The parameters are what the
   language detection and the remote model answered; analyzed_message is the
   text handed to analyze, suggest_replies and detect_buying_signals. *)
analysis_locals(loc, preferred, source_lang, remote, sentiment, lead, suggestions, signals) ==
    LET translation == translate(loc.message, preferred, source_lang, remote)
        history == Append(loc.context.recent_history,
                          [role |-> "client", content |-> translation.translated])
    IN  [client_id |-> loc.client_id, message |-> loc.message,
         save_to_memory |-> loc.save_to_memory,
         context |-> [loc.context EXCEPT !.recent_history = history],
         translation |-> translation,
         analyzed_message |-> translation.translated,
         sentiment_analysis |-> sentiment,
         lead_score |-> lead,
         suggestions |-> suggestions,
         buying_signals |-> signals]

PMAnalyze(source_lang, remote, sentiment, lead, suggestions, signals) ==
    /\ opc = "analyze"
    /\ oloc' = analysis_locals(oloc, preferred_language, source_lang, remote,
                               sentiment, lead, suggestions, signals)
    /\ opc' = next_step("analyze", oloc.save_to_memory)
    /\ UNCHANGED <<storeVars, now, call, saved, concVars, replyVars, result>>

(* the positions of process_message at which a remote call is made: steps 2
   to 7 come before the writes of step 8 *)
remote_steps_after_save == {"analyze", "save_client"}

remote_steps == {"analyze"}

(* a remote call of steps 2 to 7 raises: process_message has no handler *)
PMRemoteFails ==
    /\ opc \in remote_steps
    /\ result' = [op |-> "process_message", client_id |-> oloc.client_id,
                  outcome |-> "raised", error |-> "RemoteCallError", step |-> opc]
    /\ opc' = "idle"
    /\ oloc' = NoCall
    /\ UNCHANGED <<storeVars, now, call, saved, concVars, replyVars>>

(* step 8: self.memory.save_message(client_id, "client", message) *)
PMSaveMessage ==
    /\ opc = "save_message"
    /\ clients' = save_client(clients, oloc.client_id, NULL, NULL, now)
    /\ conversations' = save_message(conversations, oloc.client_id, "client",
                                     message_to_persist(oloc.message, oloc.translation),
                                     "instagram", now)
    /\ call' = [op |-> "save_message", client_id |-> oloc.client_id, role |-> "client",
                content |-> message_to_persist(oloc.message, oloc.translation)]
    /\ opc' = next_step(opc, oloc.save_to_memory)
    /\ UNCHANGED <<client_details, orders, now, saved, concVars, replyVars, oloc, result>>

(* step 8: self.memory.save_client(client_id, language=detected_language) *)
PMSaveClient ==
    /\ opc = "save_client"
    /\ clients' = save_client(clients, oloc.client_id, NULL,
                              oloc.translation.source_language, now)
    /\ call' = [op |-> "save_client", client_id |-> oloc.client_id, name |-> NULL,
                language |-> oloc.translation.source_language,
                again |-> SameSaveClient(call, oloc.client_id, NULL,
                                         oloc.translation.source_language)]
    /\ opc' = next_step(opc, oloc.save_to_memory)
    /\ UNCHANGED <<client_details, conversations, orders, now, saved, concVars, replyVars,
                   oloc, result>>

(* step 8: self.memory.update_lead_score(client_id, lead_score.get("score", "warm")) *)
PMUpdateLeadScore ==
    /\ opc = "update_lead_score"
    /\ clients' = update_lead_score(clients, oloc.client_id, score_to_persist(oloc.lead_score))
    /\ call' = [op |-> "update_lead_score", client_id |-> oloc.client_id,
                score |-> score_to_persist(oloc.lead_score)]
    /\ opc' = next_step(opc, oloc.save_to_memory)
    /\ UNCHANGED <<client_details, conversations, orders, now, saved, concVars, replyVars,
                   oloc, result>>

(* a write of step 8 raises (sqlite3.Error): process_message has no handler,
   the exception leaves it and the locals holding the analysis are dropped.
   The failing statement writes nothing and what was committed before it
   stays: save_message may fail in its save_client or, that one committed,
   in its INSERT. *)
PMStorageFails ==
    /\ opc \in {"save_message", "save_client", "update_lead_score"}
    /\ \/ UNCHANGED clients
       \/ /\ opc = "save_message"
          /\ clients' = save_client(clients, oloc.client_id, NULL, NULL, now)
    /\ result' = [op |-> "process_message", client_id |-> oloc.client_id,
                  outcome |-> "raised", error |-> "StorageError", step |-> opc]
    /\ opc' = "idle"
    /\ oloc' = NoCall
    /\ UNCHANGED <<client_details, conversations, orders, now, call, saved, concVars, replyVars>>

(* the result dict *)
compile_result(loc) ==
    [client_id |-> loc.client_id,
     original_message |-> loc.message,
     translated_message |-> loc.translation.translated,
     detected_language |-> loc.translation.source_language,
     sentiment |-> loc.sentiment_analysis,
     lead_qualification |-> loc.lead_score,
     buying_signals |-> loc.buying_signals,
     client_context |-> loc.context,
     suggested_responses |-> loc.suggestions,
     requires_immediate_attention |->
         Get(loc.sentiment_analysis, "requires_immediate_attention", FALSE),
     recommended_action |->
         get_recommended_action(loc.sentiment_analysis, loc.lead_score, loc.buying_signals)]

PMReturn ==
    /\ opc = "compile"
    /\ result' = [op |-> "process_message", client_id |-> oloc.client_id,
                  outcome |-> "returned", saved_to_memory |-> oloc.save_to_memory,
                  value |-> compile_result(oloc)]
    /\ opc' = "idle"
    /\ oloc' = NoCall
    /\ UNCHANGED <<storeVars, now, call, saved, concVars, replyVars>>

(* What the remote model may answer, as parsed by the agents *)
SentimentAnswers ==
    {a @@ b : a \in Opt("requires_immediate_attention", BOOLEAN),
              b \in Opt("category", {"complaint", "sales_opportunity", "general_inquiry"})}
LeadAnswers   == Opt("score", LeadScores)
SignalAnswers == Opt("signal_strength", {"strong", "moderate", "weak"})
Suggestions   == <<"Sure!", "Happy to help.", "Tell me more.">>

(* SpecAction: process_message without persistence, over every combination
   of sentiment, lead and buying-signal answers *)
NextAction ==
    \/ \E message \in Contents : PMBegin("c1", message, FALSE)
    \/ \E source_lang \in Languages, sentiment \in SentimentAnswers,
          lead \in LeadAnswers, signals \in SignalAnswers :
          PMAnalyze(source_lang, "hello", sentiment, lead, Suggestions, signals)
    \/ PMReturn

SpecAction == Init /\ [][NextAction]_vars

(* SpecOrchestrator: process_message with and without persistence, at most
   MaxCalls messages stored in a run.  The store sees of the analysis only
   the detected language and the lead score (given or absent); the answers
   are varied in full in SpecAction. *)
NextOrchestrator ==
    \/ Tick
    \/ \E id \in ClientIds, save_to_memory \in BOOLEAN :
          /\ save_to_memory => Len(conversations) < MaxCalls
          /\ PMBegin(id, "hola", save_to_memory)
    \/ \E source_lang \in Languages,
          sentiment \in {[requires_immediate_attention |-> TRUE, category |-> "complaint"]},
          lead \in Opt("score", {"hot"}) :
          PMAnalyze(source_lang, "hello", sentiment, lead, Suggestions,
                    [signal_strength |-> "weak"])
    \/ PMRemoteFails
    \/ PMSaveMessage
    \/ PMSaveClient
    \/ PMUpdateLeadScore
    \/ PMStorageFails
    \/ PMReturn

SpecOrchestrator == Init /\ [][NextOrchestrator]_vars

----------------------------------------------------------------------------
(* The capability adapters: one remote completion call each, and what each
   makes of the response.  A response is either the failure of the call (the
   client raises) or the text of the completion. *)

RemoteFailure == [failed |-> TRUE]
Completion(text) == [content |-> text, failed |-> FALSE]

(* Python values read from JSON, tagged by their type *)
JObject(d) == [value |-> d, kind |-> "object"]
JArray(a)  == [value |-> a, kind |-> "array"]
JString(t) == [value |-> t, kind |-> "string"]
JNumber(n) == [value |-> n, kind |-> "number"]
JNull      == [kind |-> "null"]
NotJSON    == [kind |-> "invalid"]     \* json.loads raises

(* The completion texts the runs use *)
SentimentJSON == "{\"sentiment\": \"angry\", \"category\": \"complaint\", \"requires_immediate_attention\": true}"
LeadJSON      == "{\"score\": \"hot\"}"
SignalJSON    == "{\"signal_strength\": \"strong\"}"
MissingJSON   == "[\"budget\", \"authority\"]"
RepliesJSON   == "[\"Sure!\", \"Happy to help.\", \"Tell me more.\", \"Thanks!\"]"
StringJSON    == "\"Happy to help.\""
NumberJSON    == "5"
NullJSON      == "null"
PlainText     == "Sure, here is the analysis you asked for"

CompletionTexts ==
    {SentimentJSON, LeadJSON, SignalJSON, MissingJSON, RepliesJSON, StringJSON,
     NumberJSON, NullJSON, PlainText, ""}

Responses == {RemoteFailure} \cup {Completion(t) : t \in CompletionTexts}

(* The values of the JSON texts *)
SentimentValue ==
    JObject([sentiment |-> "angry", requires_immediate_attention |-> TRUE,
             category |-> "complaint"])
LeadValue    == JObject([score |-> "hot"])
SignalValue  == JObject([signal_strength |-> "strong"])
MissingValue == JArray(<<"budget", "authority">>)
RepliesValue == JArray(<<"Sure!", "Happy to help.", "Tell me more.", "Thanks!">>)
StringValue  == JString("Happy to help.")
NumberValue  == JNumber(5)

(* json.loads on the completion texts: the value, or NotJSON where it raises *)
json_loads(text) ==
    CASE text = SentimentJSON -> SentimentValue
      [] text = LeadJSON      -> LeadValue
      [] text = SignalJSON    -> SignalValue
      [] text = MissingJSON   -> MissingValue
      [] text = RepliesJSON   -> RepliesValue
      [] text = StringJSON    -> StringValue
      [] text = NumberJSON    -> NumberValue
      [] text = NullJSON      -> JNull
      [] OTHER                -> NotJSON

(* What a call hands to its caller: a value, or an exception *)
Returns(v) == [value |-> v, outcome |-> "returned"]
Raises(e)    == [outcome |-> "raised", error |-> e]

(* Python s[:n] on a string or a list, n >= 0 *)
Prefix(s, n) == SubSeq(s, 1, Min2(n, Len(s)))

SummaryLimit == 100    \* SentimentAgent.analyze: message[:100]

(* SentimentAgent.analyze, the except branch *)
sentiment_fallback_whole_message(message) ==
    JObject([summary |-> message, sentiment |-> "neutral",
             requires_immediate_attention |-> FALSE, category |-> "general_inquiry",
             priority |-> 5])

sentiment_fallback(message) ==
    JObject([summary |-> Prefix(message, SummaryLimit), sentiment |-> "neutral",
             requires_immediate_attention |-> FALSE, category |-> "general_inquiry",
             priority |-> 5])

(* LeadQualifierAgent.score_lead, the except branch *)
lead_fallback ==
    JObject([score |-> "warm", confidence |-> 50, intent_level |-> 5,
             reasoning |-> "Unable to fully analyze conversation"])

(* LeadQualifierAgent.detect_buying_signals, the except branch *)
signals_fallback ==
    JObject([signal_strength |-> "weak", has_buying_signal |-> FALSE,
             signals_detected |-> <<>>])

(* LeadQualifierAgent.get_missing_qualification_info, the except branch *)
missing_fallback == JArray(<<"budget", "timeline", "requirements">>)

(* The JSON adapters: the completion call is made outside the try block, the
   try block holds json.loads alone and returns whatever it yields *)
json_adapter(response, fallback) ==
    IF response.failed THEN Raises("RemoteCallError")
    ELSE IF json_loads(response.content) = NotJSON THEN Returns(fallback)
    ELSE Returns(json_loads(response.content))

(* SentimentAgent.analyze *)
analyze(message, response) == json_adapter(response, sentiment_fallback(message))

(* LeadQualifierAgent.score_lead *)
score_lead(conversation, response) == json_adapter(response, lead_fallback)

(* LeadQualifierAgent.detect_buying_signals *)
detect_buying_signals(message, response) == json_adapter(response, signals_fallback)

(* LeadQualifierAgent.get_missing_qualification_info *)
get_missing_qualification_info(conversation, response) ==
    json_adapter(response, missing_fallback)

(* QuickResponseAgent.suggest_replies: suggestions = json.loads(content);
   return suggestions[:count] inside the try block, so a value that cannot
   be sliced (dict, number, None) ends in the except branch like a text that
   is not JSON, and a JSON string is sliced like a list *)
suggest_replies(message, context, count, response) ==
    IF response.failed THEN Raises("RemoteCallError")
    ELSE LET suggestions == json_loads(response.content)
         IN  CASE suggestions.kind = "array"
                    -> Returns(JArray(Prefix(suggestions.value, count)))
               [] suggestions.kind = "string"
                    -> Returns(JString(Prefix(suggestions.value, count)))
               [] OTHER -> Returns(JArray(<<response.content>>))

(* TranslatorAgent.adjust_tone: the completion text, no try block *)
adjust_tone(message, tone, response) ==
    IF response.failed THEN Raises("RemoteCallError")
    ELSE Returns(JString(response.content))

(* TranslatorAgent.translate with its completion call: no call when the
   detected language is the target language, no try block around the call *)
translate_call(message, target_language, source_lang, response) ==
    IF source_lang = target_language
    THEN Returns(translate(message, target_language, source_lang, message))
    ELSE IF response.failed THEN Raises("RemoteCallError")
    ELSE Returns(translate(message, target_language, source_lang, response.content))

(* QuickResponseAgent.generate_best_reply answering a failed call with the
   message itself *)
generate_best_reply_with_fallback(message, response) ==
    IF response.failed THEN Returns(JString(message))
    ELSE Returns(JString(response.content))

(* QuickResponseAgent.generate_best_reply: the completion text, no try block *)
generate_best_reply(message, response) ==
    IF response.failed THEN Raises("RemoteCallError")
    ELSE Returns(JString(response.content))

(* A message longer than SummaryLimit characters *)
LongMessage ==
    "Hola, quisiera saber el precio de un logo para mi tienda y cuanto tarda la entrega, "
    \o "porque lo necesito antes del viernes."

AdapterMessages == {"hola", LongMessage}

MaxCount == 3    \* suggest_replies is asked for 0..MaxCount replies

(* One call of an adapter: call holds the adapter, its arguments, the response
   of the remote call and what the adapter handed back *)
AdapterCall(op, message, response, out) ==
    /\ call' = [op |-> op, message |-> message, response |-> response, out |-> out]
    /\ UNCHANGED <<storeVars, now, saved, concVars, orchVars, replyVars>>

Analyze(message, response) ==
    AdapterCall("analyze", message, response, analyze(message, response))

ScoreLead(message, response) ==
    AdapterCall("score_lead", message, response,
                score_lead(<<[role |-> "client", content |-> message]>>, response))

DetectBuyingSignals(message, response) ==
    AdapterCall("detect_buying_signals", message, response,
                detect_buying_signals(message, response))

GetMissingQualificationInfo(message, response) ==
    AdapterCall("get_missing_qualification_info", message, response,
                get_missing_qualification_info(<<[role |-> "client", content |-> message]>>,
                                               response))

SuggestReplies(message, count, response) ==
    /\ call' = [op |-> "suggest_replies", message |-> message, response |-> response,
                count |-> count,
                out |-> suggest_replies(message, "", count, response)]
    /\ UNCHANGED <<storeVars, now, saved, concVars, orchVars, replyVars>>

AdjustTone(message, tone, response) ==
    AdapterCall("adjust_tone", message, response, adjust_tone(message, tone, response))

Translate(message, source_lang, response) ==
    /\ call' = [op |-> "translate", message |-> message, source_lang |-> source_lang,
                response |-> response,
                out |-> translate_call(message, preferred_language, source_lang, response)]
    /\ UNCHANGED <<storeVars, now, saved, concVars, orchVars, replyVars>>

GenerateBestReply(message, response) ==
    AdapterCall("generate_best_reply", message, response,
                generate_best_reply(message, response))

(* SpecAdapters: every adapter on every response *)
NextAdapters ==
    \E message \in AdapterMessages, response \in Responses :
        \/ Analyze(message, response)
        \/ ScoreLead(message, response)
        \/ DetectBuyingSignals(message, response)
        \/ GetMissingQualificationInfo(message, response)
        \/ \E count \in 0..MaxCount : SuggestReplies(message, count, response)
        \/ \E tone \in {"friendly", "professional"} : AdjustTone(message, tone, response)
        \/ \E source_lang \in Languages \cup {"unknown"} :
              Translate(message, source_lang, response)
        \/ GenerateBestReply(message, response)

SpecAdapters == Init /\ [][NextAdapters]_vars

----------------------------------------------------------------------------
(* AgentOrchestrator: the operations built on process_message and on the
   store.  auto_reply runs process_message (the PM steps above, with
   save_to_memory at its default True) and continues with its own remote
   calls; prepare_response and get_qualification_questions are one call
   each. *)

MaxTurns == 3    \* rows in conversations in a run of the reply operations

WorkingLanguages == {"en", "es"}                  \* values of config.PREFERRED_LANGUAGE
DetectedLanguages == {"en", "es", "unknown"}      \* what detect_language may return

BestReplyText   == "Happy to help."               \* completion of generate_best_reply
TranslatedText  == "Con gusto."                   \* completion of the translation prompt
TonedText       == "Con mucho gusto!"             \* completion of the tone prompt

(* auto_reply, the tone of the outgoing reply *)
choose_tone_hot_first(sentiment, lead, tone) ==
    IF Get(lead, "score", NULL) = "hot" THEN "persuasive"
    ELSE IF Get(sentiment, "sentiment", NULL) \in {"angry", "frustrated"} THEN "professional"
    ELSE tone

choose_tone(sentiment, lead, tone) ==
    IF Get(sentiment, "sentiment", NULL) \in {"angry", "frustrated"} THEN "professional"
    ELSE IF Get(lead, "score", NULL) = "hot" THEN "persuasive"
    ELSE tone

(* auto_reply that never translates the reply back *)
translates_back_never(client_lang) == FALSE

(* auto_reply: if client_lang != "en" *)
translates_back(client_lang) == client_lang # "en"

(* auto_reply: the text handed to save_message as the assistant turn *)
reply_to_persist_untoned(best_response, final_response) == best_response

reply_to_persist(best_response, final_response) == final_response

(* translate(): target_language None stands for the preferred language *)
target_of(target_language, preferred) ==
    IF target_language = NULL THEN preferred ELSE target_language

(* an exception leaves the running auto_reply *)
ARRaise(error) ==
    /\ result' = [op |-> "auto_reply", client_id |-> aloc.client_id,
                  new_client |-> aloc.new_client, outcome |-> "raised", error |-> error]
    /\ apc' = "idle"
    /\ aloc' = NoCall

(* auto_reply is called *)
ARBegin(id, message, tone) ==
    /\ apc = "idle" /\ opc = "idle"
    /\ aloc' = [op |-> "auto_reply", client_id |-> id, message |-> message, tone |-> tone,
                new_client |-> id \notin DOMAIN clients]
    /\ apc' = "process_message"
    /\ result' = NoCall
    /\ UNCHANGED <<storeVars, now, call, saved, concVars, opc, oloc, preferred_language>>

(* analysis = self.process_message(message, client_id) *)
ARProcessMessage ==
    /\ apc = "process_message" /\ result.op = "none"
    /\ PMBegin(aloc.client_id, aloc.message, TRUE)

(* process_message raised: auto_reply has no handler *)
ARPropagate ==
    /\ apc = "process_message" /\ opc = "idle"
    /\ result.op = "process_message" /\ result.outcome = "raised"
    /\ ARRaise(result.error)
    /\ UNCHANGED <<storeVars, now, call, saved, concVars, opc, oloc, preferred_language>>

(* the tone is chosen and generate_best_reply is called on the normalized
   message *)
ARGenerate(response) ==
    /\ apc = "process_message" /\ opc = "idle"
    /\ result.op = "process_message" /\ result.outcome = "returned"
    /\ LET analysis == result.value
           out == generate_best_reply(analysis.translated_message, response)
       IN  /\ call' = [op |-> "generate_best_reply", message |-> analysis.translated_message,
                       response |-> response, out |-> out]
           /\ IF out.outcome = "raised"
              THEN ARRaise(out.error)
              ELSE /\ aloc' = [op |-> "auto_reply", client_id |-> aloc.client_id,
                               message |-> aloc.message,
                               tone |-> choose_tone(analysis.sentiment,
                                                    analysis.lead_qualification, aloc.tone),
                               new_client |-> aloc.new_client,
                               analysis |-> analysis,
                               best_response |-> out.value.value]
                   /\ apc' = "translate"
                   /\ UNCHANGED result
    /\ UNCHANGED <<storeVars, now, saved, concVars, opc, oloc, preferred_language>>

(* the reply goes through translate_for_client(best_response, client_lang),
   or stays as it is.  source_lang is the detected language of the reply. *)
ARTranslate(source_lang, response) ==
    /\ apc = "translate"
    /\ LET client_lang == aloc.analysis.detected_language
           out == translate_call(aloc.best_response, target_of(client_lang, preferred_language),
                                 source_lang, response)
       IN  IF translates_back(client_lang)
           THEN /\ call' = [op |-> "translate_for_client", message |-> aloc.best_response,
                            client_language |-> client_lang, source_lang |-> source_lang,
                            response |-> response, out |-> out]
                /\ IF out.outcome = "raised"
                   THEN ARRaise(out.error)
                   ELSE /\ aloc' = [op |-> "auto_reply", client_id |-> aloc.client_id,
                                    message |-> aloc.message, tone |-> aloc.tone,
                                    new_client |-> aloc.new_client,
                                    analysis |-> aloc.analysis,
                                    best_response |-> aloc.best_response,
                                    final_response |-> out.value.translated]
                        /\ apc' = "adjust_tone"
                        /\ UNCHANGED result
           ELSE /\ aloc' = [op |-> "auto_reply", client_id |-> aloc.client_id,
                            message |-> aloc.message, tone |-> aloc.tone,
                            new_client |-> aloc.new_client,
                            analysis |-> aloc.analysis,
                            best_response |-> aloc.best_response,
                            final_response |-> aloc.best_response]
                /\ apc' = "adjust_tone"
                /\ UNCHANGED <<call, result>>
    /\ UNCHANGED <<storeVars, now, saved, concVars, opc, oloc, preferred_language>>

(* final_response = self.translator.adjust_tone(final_response, tone=tone) *)
ARAdjustTone(response) ==
    /\ apc = "adjust_tone"
    /\ LET out == adjust_tone(aloc.final_response, aloc.tone, response)
       IN  /\ call' = [op |-> "adjust_tone", message |-> aloc.final_response,
                       tone |-> aloc.tone, response |-> response, out |-> out]
           /\ IF out.outcome = "raised"
              THEN ARRaise(out.error)
              ELSE /\ aloc' = [aloc EXCEPT !.final_response = out.value.value]
                   /\ apc' = "save_message"
                   /\ UNCHANGED result
    /\ UNCHANGED <<storeVars, now, saved, concVars, opc, oloc, preferred_language>>

(* self.memory.save_message(client_id, "assistant", final_response) *)
ARSaveMessage ==
    /\ apc = "save_message"
    /\ clients' = save_client(clients, aloc.client_id, NULL, NULL, now)
    /\ conversations' = save_message(conversations, aloc.client_id, "assistant",
                                     reply_to_persist(aloc.best_response, aloc.final_response),
                                     "instagram", now)
    /\ call' = [op |-> "save_message", client_id |-> aloc.client_id, role |-> "assistant",
                content |-> reply_to_persist(aloc.best_response, aloc.final_response)]
    /\ apc' = "return"
    /\ UNCHANGED <<client_details, orders, now, saved, concVars, orchVars,
                   preferred_language, aloc>>

(* the write raises (sqlite3.Error) and writes nothing *)
ARStorageFails ==
    /\ apc = "save_message"
    /\ ARRaise("StorageError")
    /\ UNCHANGED <<storeVars, now, call, saved, concVars, opc, oloc, preferred_language>>

(* the dict auto_reply returns *)
auto_reply_result(loc) ==
    [client_id |-> loc.client_id,
     original_message |-> loc.message,
     detected_language |-> loc.analysis.detected_language,
     sentiment |-> Get(loc.analysis.sentiment, "sentiment", NULL),
     priority |-> Get(loc.analysis.sentiment, "priority", NULL),
     lead_score |-> Get(loc.analysis.lead_qualification, "score", NULL),
     auto_reply |-> loc.final_response,
     analysis |-> loc.analysis]

ARReturn ==
    /\ apc = "return"
    /\ result' = [op |-> "auto_reply", client_id |-> aloc.client_id,
                  new_client |-> aloc.new_client, outcome |-> "returned",
                  value |-> auto_reply_result(aloc)]
    /\ apc' = "idle"
    /\ aloc' = NoCall
    /\ UNCHANGED <<storeVars, now, call, saved, concVars, opc, oloc, preferred_language>>

(* prepare_response.  context.get("client", {}) is None for an id without a
   row (get_context stores None under the key, so the default is not used)
   and None.get raises AttributeError; a row always holds the key language,
   None until a language was saved.  toned and translated are the responses
   of the two remote calls, source_lang the detected language of the toned
   text.  The text persisted is the response as given. *)
prepare_response(ctx, response, tone, preferred, toned, source_lang, translated) ==
    IF ctx.client = NoClient THEN Raises("AttributeError")
    ELSE LET client_language == ctx.client.language
             adjusted == adjust_tone(response, tone, toned)
         IN  IF adjusted.outcome = "raised" THEN adjusted
             ELSE LET out == translate_call(adjusted.value.value,
                                            target_of(client_language, preferred),
                                            source_lang, translated)
                  IN  IF out.outcome = "raised" THEN out
                      ELSE Returns([original |-> response,
                                    adjusted_tone |-> adjusted.value.value,
                                    translated |-> out.value.translated,
                                    client_language |-> client_language,
                                    ready_to_send |-> out.value.translated])

PrepareResponse(id, response, tone, toned, source_lang, translated) ==
    /\ apc = "idle" /\ opc = "idle"
    /\ \E ctx \in get_context(clients, client_details, conversations, orders, id) :
          LET out == prepare_response(ctx, response, tone, preferred_language,
                                      toned, source_lang, translated)
          IN  IF out.outcome = "raised"
              THEN /\ result' = [op |-> "prepare_response", client_id |-> id,
                                 new_client |-> id \notin DOMAIN clients,
                                 outcome |-> "raised", error |-> out.error]
                   /\ call' = [op |-> "get_context", client_id |-> id, ret |-> ctx]
                   /\ UNCHANGED <<clients, conversations>>
              ELSE /\ result' = [op |-> "prepare_response", client_id |-> id,
                                 new_client |-> id \notin DOMAIN clients,
                                 outcome |-> "returned", value |-> out.value]
                   /\ clients' = save_client(clients, id, NULL, NULL, now)
                   /\ conversations' = save_message(conversations, id, "assistant",
                                                    response, "instagram", now)
                   /\ call' = [op |-> "save_message", client_id |-> id,
                               role |-> "assistant", content |-> response]
    /\ UNCHANGED <<client_details, orders, now, saved, concVars, opc, oloc, replyVars>>

DefaultLimit == 20    \* get_history(client_id, limit=20)

(* LeadQualifierAgent.qualification_questions *)
QualificationQuestions ==
    [budget |-> <<"What budget range are you working with for this?",
                  "Do you have a specific budget in mind?",
                  "What's your investment range for this project?">>,
     timeline |-> <<"When are you looking to make a decision?",
                    "What's your timeline for this?",
                    "How soon do you need this?">>,
     requirements |-> <<"What specific features are most important to you?",
                        "Can you tell me more about what you're looking for?",
                        "What problem are you trying to solve?">>,
     authority |-> <<"Are you the decision maker for this purchase?",
                     "Who else is involved in making this decision?",
                     "Will anyone else need to approve this?">>]

(* LeadQualifierAgent.get_qualification_questions, the except branch *)
questions_fallback ==
    JArray(<<"What brings you to us today?", "What are you looking to achieve?">>)

(* LeadQualifierAgent.get_qualification_questions(missing_info=missing) for
   missing a list or None: the first question of every known type of a
   non-empty list, else the questions of a remote call *)
get_qualification_questions(missing, response) ==
    IF missing.kind = "array" /\ Len(missing.value) > 0
    THEN LET known == SelectSeq(missing.value,
                                LAMBDA t : t \in DOMAIN QualificationQuestions)
         IN  Returns(JArray([i \in 1..Len(known) |-> QualificationQuestions[known[i]][1]]))
    ELSE json_adapter(response, questions_fallback)

(* AgentOrchestrator.get_qualification_questions: reads the history, asks
   for the missing information and for the questions *)
GetQualificationQuestions(id, response, questions) ==
    /\ apc = "idle" /\ opc = "idle"
    /\ \E history \in get_history(conversations, id, DefaultLimit) :
          LET conversation == [i \in 1..Len(history) |->
                                  [role |-> history[i].role, content |-> history[i].content]]
              missing == get_missing_qualification_info(conversation, response)
              out == IF missing.outcome = "raised" THEN missing
                     ELSE get_qualification_questions(missing.value, questions)
          IN  /\ call' = [op |-> "get_missing_qualification_info", message |-> conversation,
                          response |-> response, out |-> missing]
              /\ result' = IF out.outcome = "raised"
                           THEN [op |-> "get_qualification_questions", client_id |-> id,
                                 new_client |-> id \notin DOMAIN clients,
                                 outcome |-> "raised", error |-> out.error]
                           ELSE [op |-> "get_qualification_questions", client_id |-> id,
                                 new_client |-> id \notin DOMAIN clients,
                                 outcome |-> "returned", value |-> out.value]
    /\ UNCHANGED <<storeVars, now, saved, concVars, opc, oloc, replyVars>>

(* The orchestrator constructed under any configured working language *)
InitConfigured ==
    /\ InitStore
    /\ now = 0
    /\ InitHistory
    /\ InitIdle
    /\ preferred_language \in WorkingLanguages

(* SpecTone: auto_reply for every sentiment label, lead score and caller's
   tone, the remote calls and the store answering; at most MaxTurns turns
   stored in a run *)
NextTone ==
    \/ \E tone \in {"friendly", "casual"} :
          /\ Len(conversations) + 2 <= MaxTurns
          /\ ARBegin("c1", "hola", tone)
    \/ ARProcessMessage
    \/ \E sentiment \in Opt("sentiment", {"angry", "frustrated", "neutral"}),
          lead \in Opt("score", {"hot", "warm"}) :
          PMAnalyze("es", "hello", sentiment, lead, Suggestions, [signal_strength |-> "weak"])
    \/ PMSaveMessage
    \/ PMSaveClient
    \/ PMUpdateLeadScore
    \/ PMReturn
    \/ ARGenerate(Completion(BestReplyText))
    \/ ARTranslate("en", Completion(TranslatedText))
    \/ ARAdjustTone(Completion(TonedText))
    \/ ARSaveMessage
    \/ ARReturn

SpecTone == Init /\ [][NextTone]_vars

(* SpecReply: auto_reply, prepare_response and get_qualification_questions
   for one client that has no row at the start, under every working
   language and detected language, remote calls and writes failing or not;
   at most MaxTurns turns stored in a run *)
NextReply ==
    \/ /\ Len(conversations) + 2 <= MaxTurns
       /\ ARBegin("c1", "hola", "friendly")
    \/ ARProcessMessage
    \/ \E source_lang \in DetectedLanguages :
          PMAnalyze(source_lang, "hello", [sentiment |-> "neutral"], [score |-> "hot"],
                    Suggestions, [signal_strength |-> "weak"])
    \/ PMRemoteFails
    \/ PMSaveMessage
    \/ PMSaveClient
    \/ PMUpdateLeadScore
    \/ PMStorageFails
    \/ PMReturn
    \/ ARPropagate
    \/ \E response \in {Completion(BestReplyText), RemoteFailure} : ARGenerate(response)
    \/ \E source_lang \in WorkingLanguages,
          response \in {Completion(TranslatedText), RemoteFailure} :
          ARTranslate(source_lang, response)
    \/ \E response \in {Completion(TonedText), RemoteFailure} : ARAdjustTone(response)
    \/ ARSaveMessage
    \/ ARStorageFails
    \/ ARReturn
    \/ \E toned \in {Completion(TonedText), RemoteFailure}, source_lang \in WorkingLanguages,
          translated \in {Completion(TranslatedText), RemoteFailure} :
          /\ Len(conversations) < MaxTurns
          /\ PrepareResponse("c1", BestReplyText, "professional", toned, source_lang,
                             translated)
    \/ \E response \in {Completion(MissingJSON), Completion(NullJSON),
                        Completion(PlainText), RemoteFailure},
          questions \in {Completion(RepliesJSON), Completion(PlainText)} :
          GetQualificationQuestions("c1", response, questions)

SpecReply == InitConfigured /\ [][NextReply]_vars

(* SpecLeadScore: process_message with persistence on every lead-scoring
   answer: a known label, no score at all, or another text the remote model
   chose; at most MaxCalls messages stored in a run *)
OtherScore == "very interested"

NextLeadScore ==
    \/ /\ Len(conversations) < MaxCalls
       /\ PMBegin("c1", "hola", TRUE)
    \/ \E lead \in Opt("score", LeadScores \cup {OtherScore}) :
          PMAnalyze("es", "hello", [sentiment |-> "neutral"], lead, Suggestions,
                    [signal_strength |-> "weak"])
    \/ PMSaveMessage
    \/ PMSaveClient
    \/ PMUpdateLeadScore
    \/ PMReturn

SpecLeadScore == Init /\ [][NextLeadScore]_vars

(* SpecOrders: the orders of one client, saved within one second or across
   a tick of the clock, and read back; at most MaxOrders orders in a run *)
NextOrders ==
    \/ Tick
    \/ /\ Len(orders) < MaxOrders
       /\ \E product \in Products, status \in Statuses :
             SaveOrder("c1", product, 50, status)
    \/ GetOrders("c1")
    \/ GetContext("c1")

SpecOrders == Init /\ [][NextOrders]_vars

(* SpecAppend: every operation of the store and of the orchestrator that
   writes, one call after the other, for two clients; at most MaxTurns rows
   in conversations and MaxRows save_detail calls in a run *)
Idle == opc = "idle" /\ apc = "idle"

NextAppend ==
    \/ /\ Idle
       /\ \/ SaveClient("c1", "Ana", NULL)
          \/ UpdateLeadScore("c1", "hot")
          \/ /\ TotalSaves < MaxRows
             /\ SaveDetail("c2", "budget", "$300")
          \/ /\ orders = <<>>
             /\ SaveOrder("c2", "logo", 50, "pending")
          \/ /\ Len(conversations) < MaxTurns
             /\ \E id \in ClientIds : SaveMessage(id, "client", "hello", "instagram")
          \/ /\ Len(conversations) < MaxTurns
             /\ \E save_to_memory \in BOOLEAN : PMBegin("c2", "hola", save_to_memory)
          \/ /\ Len(conversations) + 2 <= MaxTurns
             /\ ARBegin("c1", "hola", "friendly")
          \/ /\ Len(conversations) < MaxTurns
             /\ PrepareResponse("c1", BestReplyText, "professional", Completion(TonedText),
                                "en", Completion(TranslatedText))
    \/ ARProcessMessage
    \/ PMAnalyze("es", "hello", [sentiment |-> "neutral"], [score |-> "warm"], Suggestions,
                 [signal_strength |-> "weak"])
    \/ PMSaveMessage
    \/ PMSaveClient
    \/ PMUpdateLeadScore
    \/ PMReturn
    \/ ARGenerate(Completion(BestReplyText))
    \/ ARTranslate("en", Completion(TranslatedText))
    \/ ARAdjustTone(Completion(TonedText))
    \/ ARSaveMessage
    \/ ARReturn

SpecAppend == Init /\ [][NextAppend]_vars

----------------------------------------------------------------------------
(* AgentOrchestrator.get_inbox_overview: process_message over a batch, the
   sort of the analyses and the counts *)

MaxBatch == 3    \* messages in a batch

(* what get_inbox_overview passes as save_to_memory *)
inbox_save_to_memory_default == TRUE

inbox_save_to_memory == FALSE

(* True and False as Python orders them *)
as_int(b) == IF b = TRUE THEN 1 ELSE 0

(* the sort key of an analysis *)
inbox_key_priority_first(x) ==
    <<Get(x.sentiment, "priority", 0),
      as_int(Get(x, "requires_immediate_attention", FALSE)),
      Get(x.lead_qualification, "intent_level", 0)>>

inbox_key(x) ==
    <<as_int(Get(x, "requires_immediate_attention", FALSE)),
      Get(x.sentiment, "priority", 0),
      Get(x.lead_qualification, "intent_level", 0)>>

(* a < b on tuples of three numbers *)
tuple_less(a, b) ==
    \/ a[1] < b[1]
    \/ a[1] = b[1] /\ a[2] < b[2]
    \/ a[1] = b[1] /\ a[2] = b[2] /\ a[3] < b[3]

(* list.sort(key=..., reverse=True): descending by key, elements of equal
   key in their original order *)
RECURSIVE sort_reverse(_)
sort_reverse(list) ==
    IF list = <<>> THEN <<>>
    ELSE LET x == list[Len(list)]
             rest == sort_reverse(SubSeq(list, 1, Len(list) - 1))
             pos == Cardinality({i \in DOMAIN rest :
                                    ~tuple_less(inbox_key(rest[i]), inbox_key(x))})
         IN  SubSeq(rest, 1, pos) \o <<x>> \o SubSeq(rest, pos + 1, Len(rest))

(* the analysis of one message of the batch: the result of process_message
   with the key message_id added *)
inbox_analysis(msg, ctx, preferred, answer) ==
    LET loc == analysis_locals([client_id |-> msg.client_id, message |-> msg.content,
                                save_to_memory |-> inbox_save_to_memory, context |-> ctx],
                               preferred, answer.source_lang, answer.remote,
                               answer.sentiment, answer.lead, answer.suggestions,
                               answer.signals)
    IN  [message_id |-> msg.id] @@ compile_result(loc)

(* the dict get_inbox_overview returns *)
get_inbox_overview(analyzed) ==
    LET sorted == sort_reverse(analyzed)
    IN  [total_messages |-> Len(sorted),
         urgent |-> Cardinality({i \in DOMAIN sorted :
                       Get(sorted[i], "requires_immediate_attention", FALSE) = TRUE}),
         hot_leads |-> Cardinality({i \in DOMAIN sorted :
                          Get(sorted[i].lead_qualification, "score", NULL) = "hot"}),
         complaints |-> Cardinality({i \in DOMAIN sorted :
                           Get(sorted[i].sentiment, "category", NULL) = "complaint"}),
         prioritized_inbox |-> sorted]

(* the snapshots get_context may return for the messages of the batch *)
inbox_contexts(cl, det, conv, ord, messages) ==
    LET all == UNION {get_context(cl, det, conv, ord, messages[i].client_id) :
                         i \in DOMAIN messages}
    IN  {f \in [DOMAIN messages -> all] :
            \A i \in DOMAIN messages :
               f[i] \in get_context(cl, det, conv, ord, messages[i].client_id)}

(* step 8 of process_message for the first n messages of the batch *)
RECURSIVE inbox_writes(_, _, _, _, _, _)
inbox_writes(cl, conv, messages, answers, n, t) ==
    IF n = 0 THEN [clients |-> cl, conversations |-> conv]
    ELSE LET before == inbox_writes(cl, conv, messages, answers, n - 1, t)
             id == messages[n].client_id
             cl1 == save_client(before.clients, id, NULL, NULL, t)
             cl2 == save_client(cl1, id, NULL, answers[n].source_lang, t)
         IN  [clients |-> update_lead_score(cl2, id, score_to_persist(answers[n].lead)),
              conversations |-> save_message(before.conversations, id, "client",
                                             messages[n].content, "instagram", t)]

GetInboxOverview(messages, answers) ==
    /\ Idle
    /\ \E ctxs \in inbox_contexts(clients, client_details, conversations, orders, messages) :
          LET analyzed == [i \in DOMAIN messages |->
                              inbox_analysis(messages[i], ctxs[i], preferred_language,
                                             answers[i])]
          IN  /\ result' = [op |-> "get_inbox_overview", messages |-> messages,
                            analyzed |-> analyzed, outcome |-> "returned",
                            value |-> get_inbox_overview(analyzed)]
              /\ call' = IF messages = <<>> THEN call
                         ELSE [op |-> "get_context",
                               client_id |-> messages[Len(messages)].client_id,
                               ret |-> ctxs[Len(messages)]]
    /\ IF inbox_save_to_memory
       THEN LET after == inbox_writes(clients, conversations, messages, answers,
                                      Len(messages), now)
            IN  /\ clients' = after.clients
                /\ conversations' = after.conversations
       ELSE UNCHANGED <<clients, conversations>>
    /\ UNCHANGED <<client_details, orders, now, saved, concVars, opc, oloc, replyVars>>

(* a remote call raises while a message of the batch is processed:
   get_inbox_overview has no handler *)
GetInboxOverviewFails(messages) ==
    /\ Idle
    /\ messages # <<>>
    /\ result' = [op |-> "get_inbox_overview", messages |-> messages,
                  outcome |-> "raised", error |-> "RemoteCallError"]
    /\ UNCHANGED <<storeVars, now, call, saved, concVars, opc, oloc, replyVars>>

(* The batch of n messages, for the two clients in turn *)
Batch(n) ==
    [i \in 1..n |-> [id |-> "m" \o ToString(i),
                     client_id |-> IF i % 2 = 1 THEN "c1" ELSE "c2",
                     content |-> "hola"]]

(* What the remote model answers for a message of the batch *)
InboxAnswers ==
    {[source_lang |-> "es", remote |-> "hello",
      sentiment |-> [requires_immediate_attention |-> urgent] @@ priority,
      lead |-> lead, suggestions |-> Suggestions, signals |-> [signal_strength |-> "weak"]] :
        urgent \in BOOLEAN, priority \in {[priority |-> 1], [priority |-> 9]},
        lead \in Opt("intent_level", {7})}

(* SpecInbox: one overview of a batch of up to MaxBatch messages, over a
   store in which the first client may have a row and a message *)
NextInbox ==
    \/ /\ result.op = "none"
       /\ \/ SaveClient("c1", "Ana", "es")
          \/ /\ conversations = <<>>
             /\ SaveMessage("c1", "client", "hello", "instagram")
    \/ /\ result.op = "none"
       /\ \E n \in 0..MaxBatch :
             \/ \E answers \in [1..n -> InboxAnswers] : GetInboxOverview(Batch(n), answers)
             \/ GetInboxOverviewFails(Batch(n))

SpecInbox == Init /\ [][NextInbox]_vars

(* SpecRoundTrip: auto_reply under the working language "en" on Spanish and
   English messages detected as "es" or "en", with an environment that keeps
   the two promises the round trip rests on: a translation comes out in its
   target language, and the tone adjustment keeps the language of its input.
   The generated reply may be English or Spanish, and the reply may be
   detected as any language or none.  At most MaxTurns turns stored in a run *)
SpanishReply == "Con gusto, le ayudo."            \* a completion of generate_best_reply in Spanish
EnglishToned == "Glad to help!"                   \* a completion of the tone prompt in English

(* the language a text of the model is written in *)
language_of(text) ==
    CASE text \in {"hola", TranslatedText, TonedText, SpanishReply} -> "es"
      [] text \in {"hello", BestReplyText, EnglishToned}            -> "en"
      [] OTHER                                                       -> "unknown"

(* translate() gives text in its target language: the message itself when it
   was detected as the target language, else the completion *)
translation_in_target(message, target_language, source_lang, remote) ==
    language_of(translate(message, target_language, source_lang, remote).translated)
        = target_language

(* the completion of the tone prompt is in the language of the message *)
tone_keeps_language(message, response) ==
    ~response.failed /\ language_of(response.content) = language_of(message)

NextRoundTrip ==
    \/ \E id \in ClientIds, message \in {"hola", "hello"}, tone \in {"friendly", "casual"} :
          /\ Len(conversations) + 2 <= MaxTurns
          /\ ARBegin(id, message, tone)
    \/ ARProcessMessage
    \/ \E source_lang \in WorkingLanguages, remote \in {"hello", "hola"} :
          /\ opc = "analyze"
          /\ translation_in_target(oloc.message, preferred_language, source_lang, remote)
          /\ PMAnalyze(source_lang, remote, [sentiment |-> "neutral"], [score |-> "warm"],
                       Suggestions, [signal_strength |-> "weak"])
    \/ PMSaveMessage
    \/ PMSaveClient
    \/ PMUpdateLeadScore
    \/ PMReturn
    \/ \E text \in {BestReplyText, SpanishReply} : ARGenerate(Completion(text))
    \/ \E source_lang \in DetectedLanguages, text \in {TranslatedText, BestReplyText} :
          /\ apc = "translate"
          /\ translates_back(aloc.analysis.detected_language)
                => translation_in_target(aloc.best_response,
                                         aloc.analysis.detected_language, source_lang, text)
          /\ ARTranslate(source_lang, Completion(text))
    \/ \E text \in {TonedText, EnglishToned} :
          /\ apc = "adjust_tone"
          /\ tone_keeps_language(aloc.final_response, Completion(text))
          /\ ARAdjustTone(Completion(text))
    \/ ARSaveMessage
    \/ ARReturn

SpecRoundTrip == Init /\ [][NextRoundTrip]_vars

----------------------------------------------------------------------------
(* Claims about the client rows (SpecClients) *)

(* C4: save_client is idempotent: when save_client(id, name, language) is
   called again with the same fields, the row of id (one row: client_id is
   the primary key) holds the non-null fields passed, its last_contact is no
   earlier than after the first call, and nothing else in the table differs
   from the state the first call left. *)
C4_SaveClientIdempotent ==
    [][\A id \in ClientIds, name \in Names \cup {NULL}, language \in Languages \cup {NULL} :
          (SameSaveClient(call, id, name, language) /\ SaveClient(id, name, language))
          => /\ DOMAIN clients' = DOMAIN clients
             /\ id \in DOMAIN clients'
             /\ name # NULL => clients'[id].name = name
             /\ language # NULL => clients'[id].language = language
             /\ clients'[id].last_contact >= clients[id].last_contact
             /\ clients' = [clients EXCEPT ![id].last_contact = clients'[id].last_contact]]_vars

(* C4, its case: the same save_client call with a name has run twice, the
   second time later than the row's creation *)
C4_Witness ==
    /\ call.op = "save_client"
    /\ call.again
    /\ call.name # NULL
    /\ clients[call.client_id].name = call.name
    /\ clients[call.client_id].last_contact > clients[call.client_id].created_at

(* The save_detail, save_message and save_order calls on a client *)
ImplicitSave(id) ==
    \/ \E k \in Keys, v \in Values : SaveDetail(id, k, v)
    \/ \E r \in Roles, c \in Contents : SaveMessage(id, r, c, "instagram")
    \/ \E p \in Products, st \in Statuses : SaveOrder(id, p, 50, st)

(* C5: a save_client on an existing client keeps the stored name (language)
   when it is passed as None and leaves lead_score, notes and created_at as
   they are, and leaves the other clients' rows alone; the save_client inside
   save_detail, save_message and save_order changes nothing of the row but
   last_contact. *)
C5_SaveClientFrame ==
    [][\A id \in DOMAIN clients :
          /\ \A name \in Names \cup {NULL}, language \in Languages \cup {NULL} :
                SaveClient(id, name, language)
                => /\ name = NULL => clients'[id].name = clients[id].name
                   /\ language = NULL => clients'[id].language = clients[id].language
                   /\ clients'[id].lead_score = clients[id].lead_score
                   /\ clients'[id].notes = clients[id].notes
                   /\ clients'[id].created_at = clients[id].created_at
                   /\ \A o \in DOMAIN clients \ {id} : clients'[o] = clients[o]
          /\ ImplicitSave(id)
                => clients' = [clients EXCEPT ![id].last_contact = clients'[id].last_contact]]_vars

(* C5, its case: a save_client that passes no name has run on a client that
   has a stored name and a lead score, later than the row's creation *)
C5_Witness ==
    /\ call.op = "save_client"
    /\ call.name = NULL
    /\ clients[call.client_id].name # NULL
    /\ clients[call.client_id].lead_score # NULL
    /\ clients[call.client_id].last_contact > clients[call.client_id].created_at

(* C5, the implicit save_client: a save_message has run on a client that has
   a stored name and language *)
C5_WitnessImplicit ==
    /\ call.op = "save_message"
    /\ clients[call.client_id].name # NULL
    /\ clients[call.client_id].language # NULL

----------------------------------------------------------------------------
(* Claims about the details (Spec) *)

LastSaved(c, k) == IF saved[c, k] = <<>> THEN NULL ELSE saved[c, k][Len(saved[c, k])]

(* C2: for every client and key, get_detail returns the value of the most
   recent save_detail call for that key (None if there was none),
   get_all_details maps the key to the same value, and no earlier value is
   returned by either; the values returned by the get_detail and
   get_all_details calls made are those. *)
C2_LatestDetailWins ==
    /\ \A c \in ClientIds, k \in Keys :
          /\ get_detail(client_details, c, k) = {LastSaved(c, k)}
          /\ dict_get(get_all_details(client_details, c), k) = LastSaved(c, k)
    /\ call.op = "get_detail" => call.ret = LastSaved(call.client_id, call.key)
    /\ call.op = "get_all_details" =>
          \A k \in Keys : dict_get(call.ret, k) = LastSaved(call.client_id, k)

(* C2, its case: a key saved twice with different values, then read back *)
C2_Witness ==
    /\ call.op = "get_detail"
    /\ Len(saved[call.client_id, call.key]) >= 2
    /\ saved[call.client_id, call.key][1] # LastSaved(call.client_id, call.key)
    /\ call.ret = LastSaved(call.client_id, call.key)

(* C6 as stated: a save_detail on a key that already has a value adds a row
   for the key and keeps the earlier value in the table. *)
C6_AppendOnlyDetails ==
    [][\A c \in ClientIds, k \in Keys :
          ((\E v \in Values : SaveDetail(c, k, v)) /\ detail_rows(client_details, c, k) # {})
          => /\ Cardinality(detail_rows(client_details', c, k))
                  = Cardinality(detail_rows(client_details, c, k)) + 1
             /\ \A i \in detail_rows(client_details, c, k) :
                   \E j \in detail_rows(client_details', c, k) :
                      client_details'[j].value = client_details[i].value]_vars

(* C6 as amended: a save_detail on a key that already has a value overwrites
   the value in place: no row is added to the table, the rows of the key are
   the same rows, and each of them holds the new value. *)
C6_OverwriteInPlace ==
    [][\A c \in ClientIds, k \in Keys, v \in Values :
          (SaveDetail(c, k, v) /\ detail_rows(client_details, c, k) # {})
          => /\ Len(client_details') = Len(client_details)
             /\ detail_rows(client_details', c, k) = detail_rows(client_details, c, k)
             /\ \A i \in detail_rows(client_details', c, k) :
                   client_details'[i].value = v]_vars

(* C6, its case: a second save_detail with another value has just run *)
C6_Witness ==
    /\ call.op = "save_detail"
    /\ Len(saved[call.client_id, call.key]) >= 2
    /\ saved[call.client_id, call.key][Len(saved[call.client_id, call.key]) - 1] # call.value
    /\ Cardinality(detail_rows(client_details, call.client_id, call.key)) = 1
    /\ \A i \in detail_rows(client_details, call.client_id, call.key) :
          client_details[i].value = call.value

----------------------------------------------------------------------------
(* Claims about the conversations (SpecHistory) *)

(* The full history of a client in chronological order: by timestamp, ties
   broken by insertion order (rowid) *)
ChronologicalHistory(conv, id) ==
    LET R == rows_of(conv, id)
        o == CHOOSE f \in Orderings(R) :
                \A i, j \in 1..Cardinality(R) :
                   i < j => \/ conv[f[i]].timestamp < conv[f[j]].timestamp
                            \/ conv[f[i]].timestamp = conv[f[j]].timestamp /\ f[i] < f[j]
    IN  [k \in 1..Cardinality(R) |->
            [role |-> conv[o[k]].role, content |-> conv[o[k]].content,
             timestamp |-> conv[o[k]].timestamp]]

(* C3: get_history(client, limit) returns at most limit messages, in
   non-decreasing timestamp order, and exactly the last min(limit, total)
   messages of the client's chronological history (ties by insertion
   order), also when several messages carry the same timestamp. *)
C3_HistoryIsChronologicalSuffix ==
    call.op = "get_history" =>
       LET full == ChronologicalHistory(conversations, call.client_id)
           n == Min2(call.limit, Len(full))
       IN  /\ Len(call.ret) <= call.limit
           /\ \A i, j \in 1..Len(call.ret) :
                 i < j => call.ret[i].timestamp <= call.ret[j].timestamp
           /\ call.ret = SubSeq(full, Len(full) - n + 1, Len(full))

----------------------------------------------------------------------------
(* Claims about concurrent save_detail calls (SpecConcurrent) *)

(* C7: for any interleaving of concurrent save_detail calls, once the calls
   have completed, get_detail and get_all_details return the same single
   value for every key written: the value of the call that committed last. *)
C7_ConcurrentLatestWins ==
    Running = {} =>
       \A c \in ClientIds, k \in Keys :
          saved[c, k] # <<>> =>
             /\ get_detail(client_details, c, k) = {LastSaved(c, k)}
             /\ dict_get(get_all_details(client_details, c), k) = LastSaved(c, k)

----------------------------------------------------------------------------
(* Claims about process_message (SpecAction, SpecOrchestrator) *)

Returned == result.op = "process_message" /\ result.outcome = "returned"

(* The precedence list of the recommended action: rule i applies *)
C1_Rule(i, sentiment, lead, signals) ==
    CASE i = 1 -> GetFlag(sentiment, "requires_immediate_attention")
      [] i = 2 -> "signal_strength" \in DOMAIN signals /\ signals.signal_strength = "strong"
      [] i = 3 -> "score" \in DOMAIN lead /\ lead.score = "hot"
      [] i = 4 -> "category" \in DOMAIN sentiment /\ sentiment.category = "complaint"
      [] i = 5 -> "score" \in DOMAIN lead /\ lead.score = "warm"
      [] i = 6 -> "category" \in DOMAIN sentiment /\ sentiment.category = "sales_opportunity"
      [] i = 7 -> TRUE

C1_Actions ==
    << "URGENT: Respond immediately - customer needs attention",
       "HOT LEAD: Strong buying signal detected - prioritize closing",
       "Ready to buy - present offer and close",
       "Address complaint promptly - risk of losing customer",
       "Nurture lead - provide value and build relationship",
       "Sales opportunity - qualify further and present value",
       "Respond helpfully - standard inquiry" >>

(* C1: the recommended action of a process_message result is the action of
   the first rule that applies, in the order immediate attention, strong
   buying signal, hot lead, complaint, warm lead, sales opportunity, default;
   it is one of the seven actions, and it is the urgent one whenever
   requires_immediate_attention is true, also for a hot lead. *)
C1_RecommendedActionPrecedence ==
    Returned =>
       LET v == result.value
           applies == {i \in 1..7 : C1_Rule(i, v.sentiment, v.lead_qualification,
                                            v.buying_signals)}
           first == CHOOSE i \in applies : \A j \in applies : i <= j
       IN  /\ v.recommended_action = C1_Actions[first]
           /\ Cardinality({i \in 1..7 : C1_Actions[i] = v.recommended_action}) = 1
           /\ GetFlag(v.sentiment, "requires_immediate_attention")
                 => v.recommended_action = C1_Actions[1]

(* C1, its case: immediate attention and a hot lead together *)
C1_Witness ==
    /\ Returned
    /\ GetFlag(result.value.sentiment, "requires_immediate_attention")
    /\ Get(result.value.lead_qualification, "score", NULL) = "hot"
    /\ result.value.recommended_action = C1_Actions[1]

(* The state of the running call's client before the call: the snapshot of step 1 *)
PreLanguage == IF oloc.context.client = NoClient THEN NULL ELSE oloc.context.client.language
PreLeadScore == IF oloc.context.client = NoClient THEN NULL ELSE oloc.context.client.lead_score

(* The client's last stored message is the original message, as a client turn *)
OriginalIsLastMessage ==
    LET R == rows_of(conversations, oloc.client_id)
    IN  /\ R # {}
        /\ conversations[Max(R)].role = "client"
        /\ conversations[Max(R)].content = oloc.message

(* C8: with persistence, process_message writes the original message as a
   client turn first, then the detected language, then the lead score: at
   each step the writes before it are in the store and the later ones are
   not yet; when the writes are done the client's last stored message is the
   original message with role client, its language is the detected source
   language and its lead_score is the score of the lead-scoring result. *)
C8_PersistOrder ==
    /\ opc = "save_message" =>
          /\ oloc.client_id \in DOMAIN clients =>
                /\ clients[oloc.client_id].language = PreLanguage
                /\ clients[oloc.client_id].lead_score = PreLeadScore
          /\ Cardinality(rows_of(conversations, oloc.client_id))
                = Len(oloc.context.recent_history) - 1
    /\ opc = "save_client" =>
          /\ OriginalIsLastMessage
          /\ Cardinality(rows_of(conversations, oloc.client_id))
                = Len(oloc.context.recent_history)
          /\ clients[oloc.client_id].language = PreLanguage
          /\ clients[oloc.client_id].lead_score = PreLeadScore
    /\ opc = "update_lead_score" =>
          /\ OriginalIsLastMessage
          /\ clients[oloc.client_id].language = oloc.translation.source_language
          /\ clients[oloc.client_id].lead_score = PreLeadScore
    /\ (opc = "compile" /\ oloc.save_to_memory) =>
          /\ OriginalIsLastMessage
          /\ clients[oloc.client_id].language = oloc.translation.source_language
          /\ "score" \in DOMAIN oloc.lead_score =>
                clients[oloc.client_id].lead_score = oloc.lead_score.score

(* C8, its case: the three writes are done for a translated message of a
   client whose stored language and lead score were different before *)
C8_Witness ==
    /\ opc = "compile" /\ oloc.save_to_memory
    /\ oloc.translation.was_translated
    /\ oloc.translation.translated # oloc.message
    /\ oloc.context.client # NoClient
    /\ PreLanguage \notin {NULL, oloc.translation.source_language}
    /\ "score" \in DOMAIN oloc.lead_score
    /\ PreLeadScore \notin {NULL, oloc.lead_score.score}
    /\ clients[oloc.client_id].lead_score = oloc.lead_score.score
    /\ OriginalIsLastMessage

(* C9: when a write of step 8 fails with a storage error, the caller still
   receives the computed analysis together with the report of the failure. *)
C9_AnalysisSurvivesStorageError ==
    (/\ result.op = "process_message"
     /\ result.outcome = "raised"
     /\ result.error = "StorageError")
    => /\ "value" \in DOMAIN result
       /\ {"translated_message", "sentiment", "lead_qualification", "suggested_responses",
           "buying_signals", "recommended_action"} \subseteq DOMAIN result.value

(* The summary of a snapshot is the summary function of its other fields *)
SummaryReproducible(ctx) ==
    ctx.summary = generate_context_summary(ctx.client, ctx.details,
                                           ctx.recent_history, ctx.orders)

(* C10: every context snapshot handed to a caller, by get_context or as
   client_context of a process_message result, has as summary the summary
   function of its own client, details, recent_history and orders. *)
C10_SnapshotSummaryReproducible ==
    /\ call.op = "get_context" => SummaryReproducible(call.ret)
    /\ Returned => SummaryReproducible(result.value.client_context)

----------------------------------------------------------------------------
(* Claims about the reads of the store (SpecContext) *)

(* The fields of a snapshot in the order of the summary, "" for a field that
   is not present; the order count and the last order are one field *)
C11_Fields(ctx) ==
    LET c == ctx.client
        field(label, v) == IF v # NULL /\ v # "" THEN label \o v ELSE ""
    IN  (IF c = NoClient THEN <<"", "", "">>
         ELSE << field("Client: ", c.name), field("Language: ", c.language),
                 field("Lead score: ", c.lead_score) >>)
        \o [i \in DOMAIN ctx.details |-> ctx.details[i][1] \o ": " \o ctx.details[i][2]]
        \o << IF ctx.orders = <<>> THEN ""
              ELSE "Orders: " \o ToString(Len(ctx.orders)) \o " total | Last order: "
                   \o ctx.orders[1].product \o " (" \o ctx.orders[1].status \o ")",
              IF ctx.recent_history = <<>> THEN ""
              ELSE "Conversation history: " \o ToString(Len(ctx.recent_history))
                   \o " messages" >>

(* The present fields of the first n, each after the first one preceded by the separator *)
RECURSIVE C11_Joined(_, _)
C11_Joined(fields, n) ==
    IF n = 0 THEN ""
    ELSE LET before == C11_Joined(fields, n - 1)
         IN  IF fields[n] = "" THEN before
             ELSE IF before = "" THEN fields[n]
             ELSE before \o " | " \o fields[n]

(* C11: the summary of get_context lists the present fields in the order
   name, language, lead score, each detail key: value, order count and last
   order, history message count, joined by one separator; with nothing
   present (also for an id without a client row) it is the marker
   'New client, no history'; for name Ana and language es it begins with
   'Client: Ana | Language: es'. *)
C11_SummaryOrder ==
    call.op = "get_context" =>
       LET ctx == call.ret
           fields == C11_Fields(ctx)
           joined == C11_Joined(fields, Len(fields))
           begin == "Client: Ana | Language: es"
       IN  /\ ctx.summary = IF joined = "" THEN "New client, no history" ELSE joined
           /\ (/\ ctx.client = NoClient \/ (/\ ctx.client.name \in {NULL, ""}
                                            /\ ctx.client.language \in {NULL, ""}
                                            /\ ctx.client.lead_score \in {NULL, ""})
               /\ ctx.details = <<>> /\ ctx.orders = <<>> /\ ctx.recent_history = <<>>)
                 => ctx.summary = "New client, no history"
           /\ (/\ ctx.client # NoClient
               /\ ctx.client.name = "Ana" /\ ctx.client.language = "es")
                 => /\ Len(ctx.summary) >= Len(begin)
                    /\ SubSeq(ctx.summary, 1, Len(begin)) = begin

(* C11, its case: a summary with every kind of field present *)
C11_Witness ==
    /\ call.op = "get_context"
    /\ call.ret.client # NoClient
    /\ call.ret.client.name = "Ana" /\ call.ret.client.language = "es"
    /\ call.ret.client.lead_score = "hot"
    /\ call.ret.details # <<>> /\ call.ret.orders # <<>> /\ call.ret.recent_history # <<>>
    /\ call.ret.summary = "Client: Ana | Language: es | Lead score: hot | budget: $300 | "
                          \o "Orders: 1 total | Last order: logo (pending) | "
                          \o "Conversation history: 1 messages"

(* C12: a read of the store on a client id without a row returns an explicit
   absent or empty value (None for get_client and get_detail, the empty dict
   for get_all_details, the empty list for get_history and get_orders, a
   snapshot of these for get_context) and leaves the store unchanged: the
   lookup creates no client row. *)
C12_UnknownClientReads ==
    [][\A id \in ClientIds :
          id \notin DOMAIN clients =>
             /\ GetClient(id) => call'.ret = NoClient /\ storeVars' = storeVars
             /\ (\E key \in Keys : GetDetail(id, key))
                   => call'.ret = NULL /\ storeVars' = storeVars
             /\ GetAllDetails(id) => call'.ret = <<>> /\ storeVars' = storeVars
             /\ GetHistory(id, HistoryLimit) => call'.ret = <<>> /\ storeVars' = storeVars
             /\ GetOrders(id) => call'.ret = <<>> /\ storeVars' = storeVars
             /\ GetContext(id)
                   => /\ call'.ret = [orders |-> <<>>, client |-> NoClient,
                                      details |-> <<>>, recent_history |-> <<>>,
                                      summary |-> "New client, no history"]
                      /\ storeVars' = storeVars]_vars

(* C12, its case: get_context was called for an id that has no row, while
   another client has rows *)
C12_Witness ==
    /\ call.op = "get_context"
    /\ call.client_id \notin DOMAIN clients
    /\ call.ret.client = NoClient
    /\ clients # <<>> /\ conversations # <<>>

----------------------------------------------------------------------------
(* Claims about the capability adapters (SpecAdapters) *)

JSONAdapters ==
    {"analyze", "score_lead", "detect_buying_signals", "get_missing_qualification_info"}

(* The type of JSON value an adapter expects *)
ExpectedKind(op) ==
    IF op = "get_missing_qualification_info" THEN "array" ELSE "object"

C14_LeadFallback ==
    JObject([score |-> "warm", confidence |-> 50, intent_level |-> 5,
             reasoning |-> "Unable to fully analyze conversation"])
C14_SignalsFallback ==
    JObject([signal_strength |-> "weak", has_buying_signal |-> FALSE,
             signals_detected |-> <<>>])
C14_MissingFallback == JArray(<<"budget", "timeline", "requirements">>)

(* The fallback of a JSON adapter, as the fallback table gives it *)
C14_Fallback(op, message) ==
    CASE op = "analyze" ->
            JObject([summary |-> IF Len(message) <= 100 THEN message
                                 ELSE SubSeq(message, 1, 100),
                     sentiment |-> "neutral",
                     requires_immediate_attention |-> FALSE,
                     category |-> "general_inquiry",
                     priority |-> 5])
      [] op = "score_lead" -> C14_LeadFallback
      [] op = "detect_buying_signals" -> C14_SignalsFallback
      [] op = "get_missing_qualification_info" -> C14_MissingFallback

(* The call handed back this value (values of different types are different) *)
ReturnedValue(out, v) ==
    /\ out.outcome = "returned"
    /\ out.value.kind = v.kind
    /\ out.value = v

(* C14: when the response is not valid JSON, each JSON-parsing adapter
   returns exactly its fixed fallback and does not raise: sentiment neutral,
   priority 5, category general_inquiry, requires_immediate_attention false
   and the input cut to 100 characters as summary; score warm, confidence
   50, intent_level 5; has_buying_signal false, signal_strength weak, no
   signals; budget, timeline, requirements.  The fallback does not depend on
   the response. *)
C14_NonJSONFallback ==
    (/\ call.op \in JSONAdapters
     /\ ~call.response.failed
     /\ json_loads(call.response.content) = NotJSON)
    => ReturnedValue(call.out, C14_Fallback(call.op, call.message))

(* C14, its case: the sentiment adapter got a text that is not JSON for a
   message longer than the summary limit *)
C14_Witness ==
    /\ call.op = "analyze"
    /\ call.message = LongMessage
    /\ call.response = Completion(PlainText)
    /\ call.out.outcome = "returned"
    /\ Len(call.out.value.value.summary) = 100
    /\ Len(call.message) > 100

(* C15: when the response is valid JSON of a type the adapter does not
   expect (an array, number, string or null for an object, an object for an
   array), the adapter returns its fallback. *)
C15_WrongTypeFallback ==
    (/\ call.op \in JSONAdapters
     /\ ~call.response.failed
     /\ json_loads(call.response.content) # NotJSON
     /\ json_loads(call.response.content).kind # ExpectedKind(call.op))
    => ReturnedValue(call.out, C14_Fallback(call.op, call.message))

(* C16: a failed remote call makes an adapter that has a fallback return it
   instead of raising: the JSON adapters their fallback objects, tone
   adjustment its input text, translation the pass-through result,
   suggest_replies a sequence; only best-reply generation raises. *)
C16_RemoteFailureFallback ==
    (/\ call.op \in JSONAdapters \cup {"adjust_tone", "translate", "suggest_replies"}
     /\ call.response.failed)
    => /\ call.out.outcome = "returned"
       /\ call.op \in JSONAdapters
             => ReturnedValue(call.out, C14_Fallback(call.op, call.message))
       /\ call.op = "adjust_tone" => ReturnedValue(call.out, JString(call.message))
       /\ call.op = "translate" =>
             /\ call.out.value.translated = call.message
             /\ call.out.value.was_translated = FALSE

(* C17: suggest_replies returns the first count elements of the response, in
   response order, when the response is a JSON array, and the one-element
   sequence holding the raw response text when it is anything else, valid
   JSON that is not an array included. *)
C17_SuggestReplies ==
    (call.op = "suggest_replies" /\ ~call.response.failed)
    => LET parsed == json_loads(call.response.content)
       IN  /\ call.out.outcome = "returned"
           /\ call.out.value.kind = "array"
           /\ IF parsed.kind = "array"
              THEN /\ Len(call.out.value.value) = Min2(call.count, Len(parsed.value))
                   /\ \A i \in 1..Len(call.out.value.value) :
                         call.out.value.value[i] = parsed.value[i]
              ELSE call.out.value.value = <<call.response.content>>

----------------------------------------------------------------------------
(* Claims about the reply operations (SpecReply) *)

(* C13: an unknown client id is never an error in an orchestrator
   operation: process_message, auto_reply, prepare_response and
   get_qualification_questions, called with an id that has no row, raise
   only when a remote call or the storage failed. *)
C13_UnknownClientNeverRaises ==
    /\ (/\ result.op \in {"auto_reply", "prepare_response", "get_qualification_questions"}
        /\ result.new_client
        /\ result.outcome = "raised")
       => result.error \in {"RemoteCallError", "StorageError"}
    /\ (/\ result.op = "process_message"
        /\ apc = "process_message"
        /\ aloc.new_client
        /\ result.outcome = "raised")
       => result.error \in {"RemoteCallError", "StorageError"}

(* the tone the precedence rule gives for a sentiment label, a lead score
   and the caller's tone *)
C18_Tone(label, score, given) ==
    CASE label \in {"angry", "frustrated"} -> "professional"
      [] label \notin {"angry", "frustrated"} /\ score = "hot" -> "persuasive"
      [] OTHER -> given

(* C18: the tone auto_reply hands to the tone adjustment is professional
   when the sentiment label is angry or frustrated (a hot lead included),
   otherwise persuasive when the lead score is hot, otherwise the tone the
   caller gave. *)
C18_TonePrecedence ==
    [][/\ (apc = "process_message" /\ apc' = "translate")
          => aloc'.tone = C18_Tone(Get(result.value.sentiment, "sentiment", NULL),
                                   Get(result.value.lead_qualification, "score", NULL),
                                   aloc.tone)
       /\ (apc = "translate" /\ apc' = "adjust_tone") => aloc'.tone = aloc.tone
       /\ (apc = "adjust_tone" /\ apc' = "save_message")
          => call'.op = "adjust_tone" /\ call'.tone = aloc.tone]_vars

(* an angry client who is a hot lead was answered in the professional tone *)
C18_Witness ==
    /\ apc = "save_message"
    /\ call.op = "adjust_tone" /\ call.tone = "professional"
    /\ Get(aloc.analysis.sentiment, "sentiment", NULL) = "angry"
    /\ Get(aloc.analysis.lead_qualification, "score", NULL) = "hot"

(* C19: auto_reply passes the generated reply through the translation to
   the client's language exactly when the detected language of the message
   differs from the working language, whatever the working language and the
   detected language are. *)
C19_TranslatesBackIffLanguagesDiffer ==
    [][(apc = "translate" /\ apc' # "translate")
          => (call'.op = "translate_for_client"
                <=> aloc.analysis.detected_language # preferred_language)]_vars

(* the rows of conversations that belong to the client, in rowid order *)
C20_Turns(conv, id) == SelectSeq(conv, LAMBDA row : row.client_id = id)

(* C20: the tone adjustment works on the text the translation step left and
   nothing changes the text after it: the assistant turn appended to the
   store holds the output of the tone adjustment, auto_reply returns that
   text, and the client's rows then end with the client turn holding the
   original message followed by that assistant turn. *)
C20_ToneLastAndPersisted ==
    [][/\ (apc = "adjust_tone" /\ apc' = "save_message")
          => /\ call'.op = "adjust_tone"
             /\ call'.message = IF call.op = "translate_for_client"
                                THEN call.out.value.translated
                                ELSE call.out.value.value
       /\ (apc = "save_message" /\ apc' = "return")
          => /\ call.op = "adjust_tone"
             /\ conversations' =
                   Append(conversations,
                          [client_id |-> aloc.client_id, role |-> "assistant",
                           content |-> call.out.value.value, timestamp |-> now,
                           platform |-> "instagram"])
       /\ (apc = "return" /\ apc' = "idle")
          => LET turns == C20_Turns(conversations', aloc.client_id)
                 n == Len(turns)
             IN  /\ result'.outcome = "returned"
                 /\ n >= 2
                 /\ turns[n].role = "assistant"
                 /\ turns[n].content = result'.value.auto_reply
                 /\ turns[n - 1].role = "client"
                 /\ turns[n - 1].content = result'.value.original_message]_vars

(* a Spanish message was answered: the reply went through the translation
   and the tone adjustment, and is stored after a turn of an earlier call *)
C20_Witness ==
    /\ result.op = "auto_reply" /\ result.outcome = "returned"
    /\ result.value.detected_language = "es"
    /\ result.value.auto_reply = TonedText
    /\ call.op = "save_message" /\ call.content = TonedText
    /\ Len(conversations) > 2

----------------------------------------------------------------------------
(* Claims about the stored lead score (SpecLeadScore) *)

(* C24: in every state of the store the lead_score of every client is unset
   or one of hot, warm, cold, also after process_message has persisted a
   lead-scoring answer without a score or with another value. *)
C24_LeadScoreEnum ==
    \A id \in DOMAIN clients : clients[id].lead_score \in {NULL} \cup LeadScores

----------------------------------------------------------------------------
(* Claims about the orders (SpecOrders) *)

(* the client's orders as get_orders hands them out, newest insertion first *)
C26_NewestFirst(ord, id) ==
    LET rows == SelectSeq(ord, LAMBDA row : row.client_id = id)
        n == Len(rows)
    IN  [k \in 1..n |-> [product |-> rows[n + 1 - k].product,
                         amount |-> rows[n + 1 - k].amount,
                         status |-> rows[n + 1 - k].status,
                         created_at |-> rows[n + 1 - k].created_at]]

(* C26: get_orders returns all orders of the client in reverse order of
   insertion, orders of the same created_at included, and the order the
   snapshot's summary is built from as the last order is the one appended
   most recently. *)
C26_OrdersNewestFirst ==
    /\ call.op = "get_orders" => call.ret = C26_NewestFirst(orders, call.client_id)
    /\ call.op = "get_context" => call.ret.orders = C26_NewestFirst(orders, call.client_id)

----------------------------------------------------------------------------
(* Claims about the failures of the pipeline (SpecOrchestrator, SpecReply) *)

(* C28: when a remote call of process_message raises, nothing was written:
   the call's only completed store call is its get_context, and neither
   that step nor the failing one changes a table, with or without
   persistence requested. *)
C28_NoWriteBeforeAnalysis ==
    [][/\ (opc = "idle" /\ opc' # "idle") => UNCHANGED storeVars
       /\ (/\ opc # "idle" /\ opc' = "idle"
           /\ result'.outcome = "raised" /\ result'.error = "RemoteCallError")
          => /\ UNCHANGED storeVars
             /\ call.op = "get_context"
             /\ call.client_id = oloc.client_id
             /\ call.ret.client = get_client(clients, oloc.client_id)]_vars

(* a remote call failed for a client without a row, and there is still none *)
C28_Witness ==
    /\ result.op = "process_message"
    /\ result.outcome = "raised" /\ result.error = "RemoteCallError"
    /\ result.client_id \notin DOMAIN clients
    /\ call.op = "get_context" /\ call.client_id = result.client_id

(* C27: when the best-reply generation fails inside auto_reply, auto_reply
   raises, the failing step writes nothing, and the store holds what
   process_message persisted: the client's rows end with the client turn of
   this message, and the client row has the detected language and the lead
   score. *)
C27_BestReplyFailurePropagates ==
    [][(/\ apc = "process_message"
        /\ call'.op = "generate_best_reply"
        /\ call'.response.failed)
          => /\ result'.op = "auto_reply" /\ result'.outcome = "raised"
             /\ apc' = "idle"
             /\ UNCHANGED storeVars
             /\ LET turns == C20_Turns(conversations', aloc.client_id)
                    n == Len(turns)
                IN  /\ n >= 1
                    /\ turns[n].role = "client"
                    /\ turns[n].content = aloc.message
             /\ clients'[aloc.client_id].language = result.value.detected_language
             /\ clients'[aloc.client_id].lead_score =
                   Get(result.value.lead_qualification, "score", "warm")]_vars

(* the generation failed for a client that had no row: the client turn is
   stored without a reply *)
C27_Witness ==
    /\ result.op = "auto_reply" /\ result.outcome = "raised" /\ result.new_client
    /\ call.op = "generate_best_reply" /\ call.response.failed
    /\ Len(conversations) = 1
    /\ conversations[1].role = "client"

----------------------------------------------------------------------------
(* Claims about the whole store (SpecAppend) *)

(* s is an initial part of t *)
C25_Extends(s, t) == Len(s) <= Len(t) /\ SubSeq(t, 1, Len(s)) = s

(* C25: no operation removes, reorders or alters a stored message or
   deletes a client: in every step the rows of conversations, and with them
   each client's message sequence, are extended at the end or left alone,
   and every client row that exists still exists. *)
C25_AppendOnly ==
    [][/\ C25_Extends(conversations, conversations')
       /\ \A id \in ClientIds :
             C25_Extends(C20_Turns(conversations, id), C20_Turns(conversations', id))
       /\ DOMAIN clients \subseteq DOMAIN clients']_vars

(* both clients have rows and messages, written by save_message and by
   auto_reply *)
C25_Witness ==
    /\ DOMAIN clients = ClientIds
    /\ Len(C20_Turns(conversations, "c1")) >= 2
    /\ Len(C20_Turns(conversations, "c2")) >= 1
    /\ result.op = "auto_reply" /\ result.outcome = "returned"

----------------------------------------------------------------------------
(* Claims about the inbox overview (SpecInbox) *)

(* the snapshot of a client with the normalized message appended to its
   history, as process_message leaves it in its result *)
C22_Analysed(ctx, x) ==
    x.client_context =
       [ctx EXCEPT !.recent_history =
                       Append(@, [role |-> "client", content |-> x.translated_message])]

(* C22: get_inbox_overview writes nothing, the batch may hold client ids
   without a row, and every message of the batch is analysed on a snapshot
   of the store as it was before the call. *)
C22_OverviewWritesNothing ==
    [][(result.op = "none" /\ result'.op = "get_inbox_overview")
          => /\ UNCHANGED storeVars
             /\ result'.outcome = "returned"
                => \A i \in DOMAIN result'.analyzed :
                      \E ctx \in get_context(clients, client_details, conversations,
                                             orders, result'.messages[i].client_id) :
                         C22_Analysed(ctx, result'.analyzed[i])]_vars

(* a batch for a client with a row and one without was analysed *)
C22_Witness ==
    /\ result.op = "get_inbox_overview" /\ result.outcome = "returned"
    /\ Len(result.messages) >= 2
    /\ "c1" \in DOMAIN clients /\ "c2" \notin DOMAIN clients
    /\ Len(conversations) = 1

(* the three components of the key of an analysis *)
C23_Urgent(x) == Get(x, "requires_immediate_attention", FALSE) = TRUE
C23_Priority(x) == Get(x.sentiment, "priority", 0)
C23_Intent(x) == Get(x.lead_qualification, "intent_level", 0)

(* a comes strictly before b in the descending order of the key *)
C23_Before(a, b) ==
    \/ C23_Urgent(a) /\ ~C23_Urgent(b)
    \/ /\ C23_Urgent(a) = C23_Urgent(b)
       /\ \/ C23_Priority(a) > C23_Priority(b)
          \/ C23_Priority(a) = C23_Priority(b) /\ C23_Intent(a) > C23_Intent(b)

C23_SameKey(a, b) ==
    /\ C23_Urgent(a) = C23_Urgent(b)
    /\ C23_Priority(a) = C23_Priority(b)
    /\ C23_Intent(a) = C23_Intent(b)

(* C23: the prioritized inbox is a permutation of the analysed batch in
   descending lexicographic order of (requires_immediate_attention,
   priority, intent_level): an urgent item is never behind one that is not,
   and items of equal key keep their input order. *)
C23_InboxSorted ==
    (result.op = "get_inbox_overview" /\ result.outcome = "returned")
       => LET inp == result.analyzed
              out == result.value.prioritized_inbox
              n == Len(inp)
              pos(k) == CHOOSE i \in 1..n : inp[i].message_id = out[k].message_id
          IN  /\ Len(out) = n
              /\ \A k \in 1..n : out[k] = inp[pos(k)]
              /\ \A k, l \in 1..n : k # l => pos(k) # pos(l)
              /\ \A k, l \in 1..n :
                    k < l => /\ ~(C23_Urgent(out[l]) /\ ~C23_Urgent(out[k]))
                             /\ \/ C23_Before(out[k], out[l])
                                \/ C23_SameKey(out[k], out[l]) /\ pos(k) < pos(l)

(* the urgent message of priority 1 came second in the batch and is first in
   the inbox; the two others have equal keys and keep their order *)
C23_Witness ==
    /\ result.op = "get_inbox_overview" /\ result.outcome = "returned"
    /\ Len(result.analyzed) = 3
    /\ ~C23_Urgent(result.analyzed[1]) /\ C23_Priority(result.analyzed[1]) = 9
    /\ C23_Urgent(result.analyzed[2]) /\ C23_Priority(result.analyzed[2]) = 1
    /\ C23_SameKey(result.analyzed[1], result.analyzed[3])
    /\ result.value.prioritized_inbox[1].message_id = "m2"
    /\ result.value.prioritized_inbox[2].message_id = "m1"
    /\ result.value.prioritized_inbox[3].message_id = "m3"

----------------------------------------------------------------------------
(* Claims about the round trip of languages (SpecRoundTrip) *)

(* C21: for a message detected as Spanish, the analysis of process_message
   runs on the English normalization, which is also the turn appended to the
   history handed to the lead scoring and the translated_message of the
   analysis; auto_reply returns detected_language "es" and a final reply,
   translated back and toned, that is in Spanish *)
C21_RoundTrip ==
    [][/\ (opc = "analyze" /\ opc' = "save_message"
              /\ oloc'.translation.source_language = "es")
          => /\ language_of(oloc'.analyzed_message) = "en"
             /\ oloc'.translation.was_translated
             /\ oloc'.context.recent_history[Len(oloc'.context.recent_history)]
                   = [role |-> "client", content |-> oloc'.analyzed_message]
       /\ (opc = "compile" /\ opc' = "idle" /\ result'.outcome = "returned")
          => /\ result'.value.detected_language = oloc.translation.source_language
             /\ result'.value.translated_message = oloc.analyzed_message
       /\ (apc = "return" /\ apc' = "idle" /\ result'.outcome = "returned"
              /\ aloc.analysis.detected_language = "es")
          => /\ result'.value.detected_language = "es"
             /\ language_of(result'.value.analysis.translated_message) = "en"
             /\ language_of(result'.value.auto_reply) = "es"
             /\ conversations[Len(conversations)].content = result'.value.auto_reply
      ]_vars

(* a Spanish message detected as Spanish was answered: the analysis ran on
   its English translation and the reply returned is Spanish *)
C21_Witness ==
    /\ result.op = "auto_reply" /\ result.outcome = "returned"
    /\ result.value.original_message = "hola"
    /\ result.value.detected_language = "es"
    /\ result.value.analysis.translated_message = "hello"
    /\ language_of(result.value.auto_reply) = "es"

====
